---- MODULE Spec2Model ----
(***************************************************************************)
(* Request Broker of whats_next: one producer loop that runs Terminal      *)
(* Input Sessions and publishes their results to the bounded queue         *)
(* inputChan, HTTP responders that consume them under an idle and a hard   *)
(* deadline, the caller-count bookkeeping, and /kill shutdown.             *)
(*                                                                         *)
(* Time is counted in minutes.  A deadline is kept as the time that has    *)
(* passed since it was set, which is what time.Until(deadline) reads.      *)
(*                                                                         *)
(* The section filter of parse.go (filterContentByDir) is a function of    *)
(* a document, a working directory, the runtime flavor and what git        *)
(* reports; FilterSpec applies it to every small document, and once more   *)
(* to its own result.                                                      *)
(*                                                                         *)
(* The Terminal Input Session (input_model.go, readline.go) is modelled    *)
(* key by key, next to the plain stdin reader that reads the same lines;   *)
(* its countdown is counted in seconds.  TimerMsgSpec follows the timer    *)
(* messages the caller count sends to the running program, CongestionSpec  *)
(* is the broker with one message more than the queue holds, and           *)
(* NativeSpec is createInput called without a server.                      *)
(***************************************************************************)
EXTENDS Integers, Sequences, FiniteSets, TLC

\* ---- bounds of the model
NumReq == 3          \* primary HTTP requests that may arrive
MaxMsgs == 2         \* sessions the operator brings to an end
QueueCap == 2        \* capacity of inputChan
MaxSkew == 1         \* a request arrives at most this long after a waiting one was accepted
MaxZeroReads == 1    \* zero-value receives from the closed queue that are recorded
MaxLines == 3        \* lines of a document handed to the section filter
MaxKeys == 6         \* keys pressed in one Terminal Input Session
SessionSeconds == 4  \* the session's timeout, in seconds
MaxInputEvents == 3  \* keys or lines that arrive during one native collection

\* ---- program constants (minutes)
TIMEOUT == 3
HardDeadlineMinutes == 10

Req == 1..NumReq

VARIABLES
  shutdownRequested, \* serveHandler shutdown flag
  clientConn,        \* serveHandler.clientConn (connectedCallerCount)
  sinceIdleSet,      \* minutes since h.setClientWaitDeadline (-1: never set)
  program,           \* serveHandler.program # nil
  hasInputContent,   \* the lock-free "has typed content" flag
  inputChan,         \* queued InputMessages, head first
  chanClosed,        \* close(h.inputChan) has run
  ctxCancelled,      \* h.inputCtx is cancelled
  listening,         \* the HTTP listener accepts connections
  exited,            \* handleServer has returned
  shutdownPending,   \* a spawned "go h.shutdown(ctx)" has not run yet
  killSnap,          \* what the first /kill found: callers waiting, queue
  prodPc,            \* position of the producer loop
  pendingMsg,        \* the message the producer is about to publish
  produced,          \* number of messages built so far
  runningSessions,   \* Terminal Input Sessions currently running
  taLen,             \* textarea.Length() of the running session (0 or 1)
  lastEnd,           \* how the last session ended and what it reported
  pc,                \* position of each request handler
  waited,            \* minutes since the handler set its two deadlines
  msgs,              \* handleRequest's msgs slice
  reply,             \* what the handler wrote to its ResponseWriter
  wentBack,          \* the idle branch sent the responder back to waiting
  delivered,         \* ids of the messages dequeued so far, oldest first
  document,          \* the content handed to filterContentByDir, as lines
  dir,               \* the working directory the document is filtered against
  isCursor,          \* the runtime flavor: isCursor()
  checkouts,         \* the directories that are checkouts of the one repository
  passes,            \* how often the document has been filtered (0, 1, 2)
  filteredMatches,   \* the matches the last pass selected
  firstResult,       \* what the first pass returned
  result,            \* what the last pass returned
  textarea,          \* multiLineEditorModel.textarea's value, as lines of words
  finished,          \* multiLineEditorModel.finished
  mCancelled,        \* multiLineEditorModel.cancelled
  mContent,          \* multiLineEditorModel.content
  quit,              \* Update has returned tea.Quit
  inputExited,       \* onInputExit has been called
  hasInput,          \* the session's *hasInput flag
  timerFrozen,       \* multiLineEditorModel.timerFrozen
  frozenTime,        \* multiLineEditorModel.frozenTime, in seconds
  sinceBegin,        \* seconds since multiLineEditorModel.timeoutBeginTime
  tickIn,            \* seconds until the timerTickMsg asked for arrives (-1: none)
  keys,              \* keys pressed so far
  typedAt,           \* sinceBegin when the first content was typed (-1: none)
  discarded,         \* numbers of the text words a CLEAR has emptied away
  typedLines,        \* the lines closed with Enter, oldest first
  lineOnly,          \* no control key has been pressed
  fbPos,             \* lines readInputFromNonTerminal has read
  fbLines,           \* readInputFromNonTerminal's lines
  fbState,           \* Reading, Submitted (break) or Aborted (error exit)
  fbDiscarded,       \* numbers of the text words its CLEAR has dropped
  spawnedMsg,        \* the message setProgram's "go program.Send" has yet to send
  inbox,             \* the timer message the program has received, Update not yet run
  lastTimerMsg,      \* the last timer message Update has handled
  stdinIsTerminal,   \* createInput: what term.IsTerminal found (unknown at first)
  collectorPc,       \* createInput's goroutine: start, reading, offering, gone
  sessionEnd,        \* how its read returned: none, text, exit, fail, timeout
  callPc,            \* createInput itself: select, join, joinCancelled, returned
  callReturn,        \* what createInput returned: none, nil, error
  collectCtxDone,    \* createInput's cancel() has been called
  written,           \* what has been written to w, oldest first
  sinceCall,         \* time since createInput began, up to TIMEOUT
  buffered,          \* the terminal session's textarea holds something
  inputEvents        \* keys and lines that have arrived so far

brokerVars == <<shutdownRequested, clientConn, sinceIdleSet, program,
                hasInputContent, inputChan, chanClosed, ctxCancelled,
                listening, exited, shutdownPending, killSnap>>
producerVars == <<prodPc, pendingMsg, produced, runningSessions, taLen,
                  lastEnd>>
responderVars == <<pc, waited, msgs, reply, wentBack, delivered>>
filterVars == <<document, dir, isCursor, checkouts, passes, filteredMatches,
                firstResult, result>>
modelVars == <<textarea, finished, mCancelled, mContent, quit, inputExited>>
timerVars == <<hasInput, timerFrozen, frozenTime, sinceBegin, tickIn>>
inputVars == <<keys, typedAt, discarded, typedLines, lineOnly>>
fallbackVars == <<fbPos, fbLines, fbState, fbDiscarded>>
editorVars == <<modelVars, timerVars, inputVars, fallbackVars>>
signalVars == <<spawnedMsg, inbox, lastTimerMsg>>
nativeVars == <<stdinIsTerminal, collectorPc, sessionEnd, callPc, callReturn,
                collectCtxDone, written, sinceCall, buffered, inputEvents>>
vars == <<brokerVars, producerVars, responderVars, filterVars, editorVars,
          signalVars, nativeVars>>

\* ---- InputMessage {Content, WorkingDir, Error, Exit}.  Content is 0 for the
\* empty text and the message id for a non-empty text (each text is distinct).
InputMessage(id, content, isErr, isExit) ==
  [id |-> id, Content |-> content, Error |-> isErr, Exit |-> isExit]

\* the zero value a receive from a closed, empty channel yields
ZeroMessage == InputMessage(0, 0, FALSE, FALSE)

NoMessage == InputMessage(-1, 0, FALSE, FALSE)

\* no session has ended since the last publish
NoEnd == [cause |-> "none", report |-> "none"]

\* ---- replies: status code, kind of body, and for a question the joined texts
Reply(status, kind, text) == [status |-> status, kind |-> kind, text |-> text]

BrokerInit ==
  /\ shutdownRequested = FALSE
  /\ clientConn = 0
  /\ sinceIdleSet = -1
  /\ program = FALSE
  /\ hasInputContent = FALSE
  /\ inputChan = <<>>
  /\ chanClosed = FALSE
  /\ ctxCancelled = FALSE
  /\ listening = TRUE
  /\ exited = FALSE
  /\ shutdownPending = FALSE
  /\ killSnap = "none"
  /\ prodPc = "top"
  /\ pendingMsg = NoMessage
  /\ produced = 0
  /\ runningSessions = 0
  /\ taLen = 0
  /\ lastEnd = NoEnd
  /\ pc = [r \in Req |-> "new"]
  /\ waited = [r \in Req |-> 0]
  /\ msgs = [r \in Req |-> <<>>]
  /\ reply = [r \in Req |-> <<>>]
  /\ wentBack = [r \in Req |-> FALSE]
  /\ delivered = <<>>

\* no document is being filtered
NoDocument ==
  /\ document = <<>>
  /\ dir = <<>>
  /\ isCursor = TRUE
  /\ checkouts = {}
  /\ passes = 0
  /\ filteredMatches = <<>>
  /\ firstResult = <<>>
  /\ result = <<>>

\* a session as readInputFromTerminal starts it, and the fallback before its
\* first read
NewSession ==
  /\ textarea = << <<>> >>
  /\ finished = FALSE
  /\ mCancelled = FALSE
  /\ mContent = << <<>> >>
  /\ quit = FALSE
  /\ inputExited = FALSE
  /\ hasInput = FALSE
  /\ timerFrozen = FALSE
  /\ frozenTime = 0
  /\ sinceBegin = 0
  /\ tickIn = 1
  /\ keys = 0
  /\ typedAt = -1
  /\ discarded = {}
  /\ typedLines = <<>>
  /\ lineOnly = TRUE
  /\ fbPos = 0
  /\ fbLines = <<>>
  /\ fbState = "Reading"
  /\ fbDiscarded = {}

\* no program yet, and so no timer message on its way
NoTimerMsg ==
  /\ spawnedMsg = "none"
  /\ inbox = "none"
  /\ lastTimerMsg = "none"

\* createInput at its call: the goroutine not yet started, nothing written
NoCollection ==
  /\ stdinIsTerminal = "unknown"
  /\ collectorPc = "start"
  /\ sessionEnd = "none"
  /\ callPc = "select"
  /\ callReturn = "none"
  /\ collectCtxDone = FALSE
  /\ written = <<>>
  /\ sinceCall = 0
  /\ buffered = FALSE
  /\ inputEvents = 0

Init == BrokerInit /\ NoDocument /\ NewSession /\ NoTimerMsg /\ NoCollection

\* ---------------------------------------------------------------------------
\* serveHandler bookkeeping
\* ---------------------------------------------------------------------------

\* h.isShutdownRequested()
isShutdownRequested == shutdownRequested

\* h.requestShutdown()
requestShutdown == shutdownRequested' = TRUE

\* h.hasInputContent(): lock-free read of the flag
hasInputContentNow == hasInputContent

\* h.setClientWaitDeadline(time.Now().Add(TIMEOUT))
setClientWaitDeadline == sinceIdleSet' = 0

\* notifyRequestAccepted: h.clientConn++
notifyRequestAccepted == clientConn' = clientConn + 1

\* (variant: the count is only taken down while a session is running)
notifyRequestFinishedInSession ==
  clientConn' = IF program THEN clientConn - 1 ELSE clientConn

\* notifyRequestFinished: h.clientConn--
notifyRequestFinished == clientConn' = clientConn - 1

\* "go h.shutdown(ctx)": the call runs later, on its own control flow
spawnShutdown == shutdownPending' = TRUE

\* handlers that have been entered and have not returned
InFlight == {r \in Req : pc[r] \notin {"new", "done"}}

\* responders blocked in the first-message select
Waiting == {r \in Req : pc[r] = "wait"}

\* time.Until(idleDeadline) and time.Until(hardDeadline) of a responder
idleLeft(r) == TIMEOUT - waited[r]
hardLeft(r) == HardDeadlineMinutes - waited[r]

\* ---------------------------------------------------------------------------
\* HTTP handlers
\* ---------------------------------------------------------------------------

\* a /kill handler that only sets the flag and leaves shutdown to a responder
KillFlagOnly ==
  /\ listening /\ ~exited
  /\ requestShutdown
  /\ killSnap' = IF killSnap # "none" THEN killSnap
                 ELSE IF inputChan # <<>> \/ prodPc = "publish" \/ InFlight # Waiting
                      THEN "other"
                 ELSE IF Cardinality(Waiting) = 0 THEN "zero"
                 ELSE IF Cardinality(Waiting) = 1 THEN "one"
                 ELSE "other"
  /\ UNCHANGED <<filterVars, editorVars, signalVars, nativeVars, clientConn, sinceIdleSet, program, hasInputContent,
                 inputChan, chanClosed, ctxCancelled, listening, exited,
                 shutdownPending, producerVars, responderVars>>

\* a /kill handler that calls h.shutdown itself instead of spawning it
KillInline ==
  /\ listening /\ ~exited
  /\ requestShutdown
  /\ ctxCancelled' = TRUE
  /\ listening' = FALSE
  /\ killSnap' = IF killSnap # "none" THEN killSnap ELSE "other"
  /\ UNCHANGED <<filterVars, editorVars, signalVars, nativeVars, clientConn, sinceIdleSet,
                 program, hasInputContent, inputChan, chanClosed, exited,
                 shutdownPending, producerVars, responderVars>>

\* mux "/kill": set the flag, start shutdown on a goroutine, return 200
Kill ==
  /\ listening /\ ~exited
  /\ requestShutdown
  /\ spawnShutdown
  /\ killSnap' = IF killSnap # "none" THEN killSnap
                 ELSE IF inputChan # <<>> \/ prodPc = "publish" \/ InFlight # Waiting
                      THEN "other"
                 ELSE IF Cardinality(Waiting) = 0 THEN "zero"
                 ELSE IF Cardinality(Waiting) = 1 THEN "one"
                 ELSE "other"
  /\ UNCHANGED <<filterVars, editorVars, signalVars, nativeVars, clientConn, sinceIdleSet, program, hasInputContent,
                 inputChan, chanClosed, ctxCancelled, listening, exited,
                 producerVars, responderVars>>

\* h.shutdown(ctx): cancel the producer's lifetime (which ends the running
\* session) and stop accepting connections
Shutdown ==
  /\ shutdownPending /\ ~exited
  /\ shutdownPending' = FALSE
  /\ ctxCancelled' = TRUE
  /\ listening' = FALSE
  /\ UNCHANGED <<filterVars, editorVars, signalVars, nativeVars, shutdownRequested, clientConn, sinceIdleSet, program,
                 hasInputContent, inputChan, chanClosed, exited, killSnap,
                 producerVars, responderVars>>

\* handleServer: ListenAndServe returns once the listener is closed; the
\* deferred graceful shutdown waits for the in-flight handlers, then the
\* process ends
ProcessExit ==
  /\ ~exited /\ ~listening
  /\ InFlight = {}
  /\ exited' = TRUE
  /\ UNCHANGED <<filterVars, editorVars, signalVars, nativeVars, shutdownRequested, clientConn, sinceIdleSet, program,
                 hasInputContent, inputChan, chanClosed, ctxCancelled,
                 listening, shutdownPending, killSnap, producerVars,
                 responderVars>>

\* a "/" handler without the shutdown check
ServeCheckNoFlag(r) ==
  /\ pc[r] = "new"
  /\ listening /\ ~exited
  /\ \A q \in Waiting : waited[q] <= MaxSkew
  /\ IF r = 1 THEN TRUE ELSE pc[r - 1] # "new"
  /\ pc' = [pc EXCEPT ![r] = "accepting"]
  /\ UNCHANGED <<filterVars, editorVars, signalVars, nativeVars, brokerVars, producerVars, waited, msgs, reply, wentBack,
                 delivered>>

\* mux "/", the shutdown check: 503 and return when shutdown was requested
ServeCheck(r) ==
  /\ pc[r] = "new"
  /\ listening /\ ~exited
  /\ \A q \in Waiting : waited[q] <= MaxSkew
  /\ IF r = 1 THEN TRUE ELSE pc[r - 1] # "new"
  /\ IF isShutdownRequested
     THEN /\ reply' = [reply EXCEPT ![r] = Append(@, Reply(503, "shutting down", <<>>))]
          /\ pc' = [pc EXCEPT ![r] = "refused"]
     ELSE /\ pc' = [pc EXCEPT ![r] = "accepting"]
          /\ UNCHANGED reply
  /\ UNCHANGED <<filterVars, editorVars, signalVars, nativeVars, brokerVars, producerVars, waited, msgs, wentBack, delivered>>

\* a "/" handler that runs the input session itself, as handleServe did
\* before there was a producer loop
ServeAcceptRunsSession(r) ==
  /\ pc[r] = "accepting" /\ ~exited
  /\ notifyRequestAccepted
  /\ setClientWaitDeadline
  /\ waited' = [waited EXCEPT ![r] = 0]
  /\ pc' = [pc EXCEPT ![r] = "wait"]
  /\ runningSessions' = runningSessions + 1
  /\ UNCHANGED <<filterVars, editorVars, signalVars, nativeVars, shutdownRequested, program, hasInputContent, inputChan,
                 chanClosed, ctxCancelled, listening, exited, shutdownPending,
                 killSnap, prodPc, pendingMsg, produced, taLen, lastEnd, msgs,
                 reply, wentBack, delivered>>

\* a "/" handler that does not push the idle deadline of the broker
ServeAcceptNoDeadline(r) ==
  /\ pc[r] = "accepting" /\ ~exited
  /\ notifyRequestAccepted
  /\ waited' = [waited EXCEPT ![r] = 0]
  /\ pc' = [pc EXCEPT ![r] = "wait"]
  /\ UNCHANGED <<filterVars, editorVars, signalVars, nativeVars, shutdownRequested, sinceIdleSet, program, hasInputContent,
                 inputChan, chanClosed, ctxCancelled, listening, exited,
                 shutdownPending, killSnap, producerVars, msgs, reply,
                 wentBack, delivered>>

\* mux "/", accept: count the caller, set both deadlines, enter handleRequest
ServeAccept(r) ==
  /\ pc[r] = "accepting" /\ ~exited
  /\ notifyRequestAccepted
  /\ setClientWaitDeadline
  /\ waited' = [waited EXCEPT ![r] = 0]
  /\ pc' = [pc EXCEPT ![r] = "wait"]
  /\ UNCHANGED <<filterVars, editorVars, signalVars, nativeVars, shutdownRequested, program, hasInputContent, inputChan,
                 chanClosed, ctxCancelled, listening, exited, shutdownPending,
                 killSnap, producerVars, msgs, reply, wentBack, delivered>>

\* a first-message receive that reads the head and leaves it in the queue
RecvFirstPeek(r) ==
  /\ pc[r] = "wait" /\ ~exited
  /\ inputChan # <<>>
  /\ LET msg == Head(inputChan) IN
       /\ delivered' = Append(delivered, msg.id)
       /\ IF msg.Exit
          THEN /\ reply' = [reply EXCEPT ![r] = Append(@, Reply(200, "exit", <<>>))]
               /\ pc' = [pc EXCEPT ![r] = "finish"]
               /\ UNCHANGED msgs
          ELSE /\ msgs' = [msgs EXCEPT ![r] = Append(@, msg)]
               /\ pc' = [pc EXCEPT ![r] = "drain"]
               /\ UNCHANGED reply
  /\ UNCHANGED <<filterVars, editorVars, signalVars, nativeVars, brokerVars, producerVars, waited, wentBack>>

\* handleRequest, first-message select, case msg, ok := <-h.inputChan (ok)
RecvFirst(r) ==
  /\ pc[r] = "wait" /\ ~exited
  /\ inputChan # <<>>
  /\ LET msg == Head(inputChan) IN
       /\ inputChan' = Tail(inputChan)
       /\ delivered' = Append(delivered, msg.id)
       /\ IF msg.Exit
          THEN /\ reply' = [reply EXCEPT ![r] = Append(@, Reply(200, "exit", <<>>))]
               /\ pc' = [pc EXCEPT ![r] = "finish"]
               /\ UNCHANGED msgs
          ELSE /\ msgs' = [msgs EXCEPT ![r] = Append(@, msg)]
               /\ pc' = [pc EXCEPT ![r] = "drain"]
               /\ UNCHANGED reply
  /\ UNCHANGED <<filterVars, editorVars, signalVars, nativeVars, shutdownRequested, clientConn, sinceIdleSet, program,
                 hasInputContent, chanClosed, ctxCancelled, listening, exited,
                 shutdownPending, killSnap, producerVars, waited, wentBack>>

\* handleRequest, first-message select, case msg, ok := <-h.inputChan (!ok)
RecvClosed(r) ==
  /\ pc[r] = "wait" /\ ~exited
  /\ inputChan = <<>> /\ chanClosed
  /\ reply' = [reply EXCEPT ![r] = Append(@, Reply(500, "closed", <<>>))]
  /\ pc' = [pc EXCEPT ![r] = "finish"]
  /\ UNCHANGED <<filterVars, editorVars, signalVars, nativeVars, brokerVars, producerVars, waited, msgs, wentBack, delivered>>

\* a hard timer that is armed once and lost when the select is re-entered
HardTimeoutOnce(r) ==
  /\ pc[r] = "wait" /\ ~exited
  /\ hardLeft(r) <= 0
  /\ ~wentBack[r]
  /\ reply' = [reply EXCEPT ![r] = Append(@, Reply(408, "timeout", <<>>))]
  /\ pc' = [pc EXCEPT ![r] = "finish"]
  /\ UNCHANGED <<filterVars, editorVars, signalVars, nativeVars, brokerVars, producerVars, waited, msgs, wentBack, delivered>>

\* a hard-deadline branch that also ends the producer's lifetime
HardTimeoutCancels(r) ==
  /\ pc[r] = "wait" /\ ~exited
  /\ hardLeft(r) <= 0
  /\ reply' = [reply EXCEPT ![r] = Append(@, Reply(408, "timeout", <<>>))]
  /\ pc' = [pc EXCEPT ![r] = "finish"]
  /\ ctxCancelled' = TRUE
  /\ UNCHANGED <<filterVars, editorVars, signalVars, nativeVars, shutdownRequested,
                 clientConn, sinceIdleSet, program, hasInputContent, inputChan,
                 chanClosed, listening, exited, shutdownPending, killSnap,
                 producerVars, waited, msgs, wentBack, delivered>>

\* handleRequest, first-message select, case <-time.After(time.Until(hardDeadline))
HardTimeout(r) ==
  /\ pc[r] = "wait" /\ ~exited
  /\ hardLeft(r) <= 0
  /\ reply' = [reply EXCEPT ![r] = Append(@, Reply(408, "timeout", <<>>))]
  /\ pc' = [pc EXCEPT ![r] = "finish"]
  /\ UNCHANGED <<filterVars, editorVars, signalVars, nativeVars, brokerVars, producerVars, waited, msgs, wentBack, delivered>>

\* an idle branch that does not look at the typed-content flag
IdleElapsedNoFlag(r) ==
  /\ pc[r] = "wait" /\ ~exited
  /\ idleLeft(r) <= 0
  /\ reply' = [reply EXCEPT ![r] = Append(@, Reply(200, "thinking", <<>>))]
  /\ pc' = [pc EXCEPT ![r] = "finish"]
  /\ UNCHANGED <<filterVars, editorVars, signalVars, nativeVars, brokerVars, producerVars, waited, msgs, wentBack, delivered>>

\* handleRequest, first-message select, case <-time.After(time.Until(idleDeadline))
IdleElapsed(r) ==
  /\ pc[r] = "wait" /\ ~exited
  /\ idleLeft(r) <= 0
  /\ IF ~hasInputContentNow
     THEN /\ reply' = [reply EXCEPT ![r] = Append(@, Reply(200, "thinking", <<>>))]
          /\ pc' = [pc EXCEPT ![r] = "finish"]
          /\ UNCHANGED wentBack
     ELSE /\ wentBack' = [wentBack EXCEPT ![r] = TRUE]
          /\ UNCHANGED <<pc, reply>>
  /\ UNCHANGED <<filterVars, editorVars, signalVars, nativeVars, brokerVars, producerVars, waited, msgs, delivered>>

\* zero-value messages a responder has collected
ZeroReads(ms) == Cardinality({i \in 1..Len(ms) : ms[i] = ZeroMessage})

\* handleRequest, drain select, case msg := <-h.inputChan: a queued message,
\* or the zero value once the channel is closed and empty
DrainRecv(r) ==
  /\ pc[r] = "drain" /\ ~exited
  /\ \/ /\ inputChan # <<>>
        /\ msgs' = [msgs EXCEPT ![r] = Append(@, Head(inputChan))]
        /\ inputChan' = Tail(inputChan)
        /\ delivered' = Append(delivered, Head(inputChan).id)
     \/ /\ inputChan = <<>> /\ chanClosed
        /\ msgs' = [msgs EXCEPT ![r] =
                      IF ZeroReads(@) < MaxZeroReads THEN Append(@, ZeroMessage) ELSE @]
        /\ UNCHANGED <<inputChan, delivered>>
  /\ UNCHANGED <<filterVars, editorVars, signalVars, nativeVars, shutdownRequested, clientConn, sinceIdleSet, program,
                 hasInputContent, chanClosed, ctxCancelled, listening, exited,
                 shutdownPending, killSnap, producerVars, pc, waited, reply,
                 wentBack>>

\* strings.Join(contents, "\n") is "" only for no part or one empty part
JoinIsEmpty(contents) == contents = <<>> \/ contents = <<0>>

RECURSIVE composeFromNoExit(_, _, _, _)
\* a reply loop that treats an exit signal as one more text
composeFromNoExit(ms, i, contents, errors) ==
  IF i > Len(ms)
  THEN IF errors # <<>> THEN Reply(200, "error", errors)
       ELSE IF ~JoinIsEmpty(contents) THEN Reply(200, "question", contents)
       ELSE Reply(200, "thinking", <<>>)
  ELSE IF ms[i].Error THEN composeFromNoExit(ms, i + 1, contents, Append(errors, ms[i].id))
       ELSE composeFromNoExit(ms, i + 1, Append(contents, ms[i].Content), errors)

RECURSIVE composeFrom(_, _, _, _)
\* handleRequest, the loop over msgs and the reply that follows it
composeFrom(ms, i, contents, errors) ==
  IF i > Len(ms)
  THEN IF errors # <<>> THEN Reply(200, "error", errors)
       ELSE IF ~JoinIsEmpty(contents) THEN Reply(200, "question", contents)
       ELSE Reply(200, "thinking", <<>>)
  ELSE IF ms[i].Exit THEN Reply(200, "exit", <<>>)
       ELSE IF ms[i].Error THEN composeFrom(ms, i + 1, contents, Append(errors, ms[i].id))
       ELSE composeFrom(ms, i + 1, Append(contents, ms[i].Content), errors)

composeReply(ms) == composeFrom(ms, 1, <<>>, <<>>)

\* handleRequest, drain select, default: stop draining, compose and write the reply
DrainDone(r) ==
  /\ pc[r] = "drain" /\ ~exited
  /\ inputChan = <<>> /\ ~chanClosed
  /\ reply' = [reply EXCEPT ![r] = Append(@, composeReply(msgs[r]))]
  /\ pc' = [pc EXCEPT ![r] = "finish"]
  /\ UNCHANGED <<filterVars, editorVars, signalVars, nativeVars, brokerVars, producerVars, waited, msgs, wentBack, delivered>>

\* mux "/", after handleRequest: trigger shutdown if requested, then the
\* deferred notifyRequestFinished; the handler's locals are gone
ServeFinish(r) ==
  /\ pc[r] = "finish" /\ ~exited
  /\ IF isShutdownRequested THEN spawnShutdown ELSE UNCHANGED shutdownPending
  /\ notifyRequestFinished
  /\ pc' = [pc EXCEPT ![r] = "done"]
  /\ waited' = [waited EXCEPT ![r] = 0]
  /\ msgs' = [msgs EXCEPT ![r] = <<>>]
  /\ reply' = [reply EXCEPT ![r] = <<>>]
  /\ wentBack' = [wentBack EXCEPT ![r] = FALSE]
  /\ UNCHANGED <<filterVars, editorVars, signalVars, nativeVars, shutdownRequested, sinceIdleSet, program, hasInputContent,
                 inputChan, chanClosed, ctxCancelled, listening, exited,
                 killSnap, producerVars, delivered>>

\* mux "/", return after the 503
ServeRefused(r) ==
  /\ pc[r] = "refused" /\ ~exited
  /\ pc' = [pc EXCEPT ![r] = "done"]
  /\ reply' = [reply EXCEPT ![r] = <<>>]
  /\ UNCHANGED <<filterVars, editorVars, signalVars, nativeVars, brokerVars, producerVars, waited, msgs, wentBack, delivered>>

\* ---------------------------------------------------------------------------
\* Producer loop and Terminal Input Session
\* ---------------------------------------------------------------------------

\* setProgram(program): publish the handle of the running session (nil: none)
setProgram(p) == program' = p

\* multiLineEditorModel.Update, its first statements: the flag is stored from
\* the textarea length as it is before the event is processed
storeHasInput == hasInputContent' = (taLen > 0)

\* a report that takes a cancelled model for a failure of the editing routine
readInputReportAbortFails(runErr, ctxDone, cancelled, nonEmpty) ==
  IF runErr THEN (IF ctxDone THEN "timeout" ELSE "fail")
  ELSE IF cancelled THEN "fail"
  ELSE IF nonEmpty THEN "text" ELSE "empty"

\* a report that does not look at the lifetime when the run has failed
readInputReportNoCtx(runErr, ctxDone, cancelled, nonEmpty) ==
  IF runErr THEN "fail"
  ELSE IF cancelled THEN "exit"
  ELSE IF nonEmpty THEN "text" ELSE "empty"

\* readInputFromTerminal after program.Run has returned: a run error reports
\* "timeout" when the lifetime is cancelled and the error itself otherwise,
\* a cancelled model reports "exit", else the content is returned
readInputReport(runErr, ctxDone, cancelled, nonEmpty) ==
  IF runErr THEN (IF ctxDone THEN "timeout" ELSE "fail")
  ELSE IF cancelled THEN "exit"
  ELSE IF nonEmpty THEN "text" ELSE "empty"

\* what the session reports for the way it ended
reportOf(cause, ctxDone, nonEmpty) ==
  readInputReport(cause \in {"fail", "cancelled"}, ctxDone,
                  cause \in {"abort", "exit"}, nonEmpty)

\* the InputMessage built from a session's report: text, failure, or an exit
\* signal (for the exit token, which has called onInputExit, and for a
\* session ended by shutdown); a user abort gives a plain empty message
sessionMessage(id, report, exitSignalled) ==
  IF report = "timeout" \/ (report = "exit" /\ exitSignalled)
  THEN InputMessage(id, 0, FALSE, TRUE)
  ELSE IF report = "fail" THEN InputMessage(id, 0, TRUE, FALSE)
  ELSE IF report = "text" THEN InputMessage(id, id, FALSE, FALSE)
  ELSE InputMessage(id, 0, FALSE, FALSE)

\* loop head: select { case <-h.inputCtx.Done(): return; default: ... }
\* (the deferred close(h.inputChan) runs on return)
ProducerTop ==
  /\ prodPc = "top" /\ ~exited
  /\ IF ctxCancelled
     THEN /\ prodPc' = "stopped"
          /\ chanClosed' = TRUE
     ELSE /\ prodPc' = "starting"
          /\ UNCHANGED chanClosed
  /\ UNCHANGED <<filterVars, editorVars, signalVars, nativeVars, shutdownRequested, clientConn, sinceIdleSet, program,
                 hasInputContent, inputChan, ctxCancelled, listening, exited,
                 shutdownPending, killSnap, pendingMsg, produced,
                 runningSessions, taLen, lastEnd, responderVars>>

\* createInput -> readInputFromTerminal: a new program is created and run
SessionStart ==
  /\ prodPc = "starting" /\ ~exited
  /\ prodPc' = "session"
  /\ setProgram(TRUE)
  /\ runningSessions' = runningSessions + 1
  /\ taLen' = 0
  /\ UNCHANGED <<filterVars, editorVars, signalVars, nativeVars, shutdownRequested, clientConn, sinceIdleSet,
                 hasInputContent, inputChan, chanClosed, ctxCancelled,
                 listening, exited, shutdownPending, killSnap, pendingMsg,
                 produced, lastEnd, responderVars>>

\* Update on an event that leaves the session in Editing: a character typed,
\* the CLEAR token entered, or an event that does not touch the buffer
SessionEvent(kind) ==
  /\ prodPc = "session" /\ ~exited
  /\ kind = "clear" => taLen > 0
  /\ storeHasInput
  /\ taLen' = CASE kind = "char" -> 1
                [] kind = "clear" -> 0
                [] OTHER -> taLen
  /\ UNCHANGED <<filterVars, editorVars, signalVars, nativeVars, shutdownRequested, clientConn, sinceIdleSet, program,
                 inputChan, chanClosed, ctxCancelled, listening, exited,
                 shutdownPending, killSnap, prodPc, pendingMsg, produced,
                 runningSessions, lastEnd, responderVars>>

\* Update on an event that ends the session, the return of program.Run, and
\* the message built from it
SessionEnd(outcome, limit) ==
  /\ prodPc = "session" /\ ~exited
  /\ produced < limit
  /\ outcome = "exit" => taLen > 0
  /\ storeHasInput
  /\ IF outcome = "exit" THEN requestShutdown ELSE UNCHANGED shutdownRequested
  /\ setProgram(FALSE)
  /\ runningSessions' = runningSessions - 1
  /\ produced' = produced + 1
  /\ LET report == reportOf(outcome, ctxCancelled, taLen > 0) IN
       /\ lastEnd' = [cause |-> outcome, report |-> report]
       /\ pendingMsg' = sessionMessage(produced + 1, report, outcome = "exit")
  /\ prodPc' = "publish"
  /\ UNCHANGED <<filterVars, editorVars, signalVars, nativeVars, clientConn, sinceIdleSet, inputChan, chanClosed,
                 ctxCancelled, listening, exited, shutdownPending, killSnap,
                 taLen, responderVars>>

\* the session's lifetime is cancelled while it is Editing: program.Run
\* returns at once
SessionCancelled ==
  /\ prodPc = "session" /\ ~exited
  /\ ctxCancelled
  /\ setProgram(FALSE)
  /\ runningSessions' = runningSessions - 1
  /\ produced' = produced + 1
  /\ LET report == reportOf("cancelled", ctxCancelled, taLen > 0) IN
       /\ lastEnd' = [cause |-> "cancelled", report |-> report]
       /\ pendingMsg' = sessionMessage(produced + 1, report, FALSE)
  /\ prodPc' = "publish"
  /\ UNCHANGED <<filterVars, editorVars, signalVars, nativeVars, shutdownRequested, clientConn, sinceIdleSet,
                 hasInputContent, inputChan, chanClosed, ctxCancelled,
                 listening, exited, shutdownPending, killSnap, taLen,
                 responderVars>>

\* a publish that puts the message at the head of the queue
PublishSendFront ==
  /\ prodPc = "publish" /\ ~exited
  /\ Len(inputChan) < QueueCap
  /\ inputChan' = <<pendingMsg>> \o inputChan
  /\ pendingMsg' = NoMessage
  /\ lastEnd' = NoEnd
  /\ prodPc' = "top"
  /\ UNCHANGED <<filterVars, editorVars, signalVars, nativeVars, shutdownRequested, clientConn, sinceIdleSet, program,
                 hasInputContent, chanClosed, ctxCancelled, listening, exited,
                 shutdownPending, killSnap, produced, runningSessions, taLen,
                 responderVars>>

\* publish select, case h.inputChan <- msg
PublishSend ==
  /\ prodPc = "publish" /\ ~exited
  /\ Len(inputChan) < QueueCap
  /\ inputChan' = Append(inputChan, pendingMsg)
  /\ pendingMsg' = NoMessage
  /\ lastEnd' = NoEnd
  /\ prodPc' = "top"
  /\ UNCHANGED <<filterVars, editorVars, signalVars, nativeVars, shutdownRequested, clientConn, sinceIdleSet, program,
                 hasInputContent, chanClosed, ctxCancelled, listening, exited,
                 shutdownPending, killSnap, produced, runningSessions, taLen,
                 responderVars>>

\* a publish that has no case for the cancelled lifetime
PublishWaitsForRoom ==
  /\ prodPc = "publish" /\ ~exited
  /\ FALSE
  /\ UNCHANGED vars

\* publish select, case <-h.inputCtx.Done(): return (and close the channel)
PublishAbandon ==
  /\ prodPc = "publish" /\ ~exited
  /\ ctxCancelled
  /\ pendingMsg' = NoMessage
  /\ lastEnd' = NoEnd
  /\ prodPc' = "stopped"
  /\ chanClosed' = TRUE
  /\ UNCHANGED <<filterVars, editorVars, signalVars, nativeVars, shutdownRequested, clientConn, sinceIdleSet, program,
                 hasInputContent, inputChan, ctxCancelled, listening, exited,
                 shutdownPending, killSnap, produced, runningSessions, taLen,
                 responderVars>>

\* ---------------------------------------------------------------------------
\* Clock
\* ---------------------------------------------------------------------------

Min(a, b) == IF a < b THEN a ELSE b

\* time until the next timer of a responder blocked in the select fires
nextTimer(r) == IF idleLeft(r) > 0 THEN idleLeft(r) ELSE hardLeft(r)

SetMin(S) == CHOOSE x \in S : \A y \in S : x <= y

\* the requests of the timed specification
TimedReq == 1..(NumReq - 1)

\* a timer of the responder's select has fired and would end its wait
timerDue(r) == hardLeft(r) <= 0 \/ (idleLeft(r) <= 0 /\ ~hasInputContentNow)

\* a handler is between two blocking points or its receive is ready (a
\* handler that polls the closed queue in its drain loop stays there)
running(r) ==
  \/ pc[r] \in {"accepting", "finish", "refused"}
  \/ pc[r] = "drain" /\ ~(inputChan = <<>> /\ chanClosed)
  \/ pc[r] = "wait" /\ (inputChan # <<>> \/ chanClosed)

\* Time passes for every responder blocked in the first-message select: one
\* minute while a further request may still arrive, else up to the next
\* timer.  Handler code takes no time: a handler that is running, or whose
\* timer has fired, gets to its next blocking point before the next minute.
Tick ==
  /\ ~exited
  /\ \E r \in Waiting : hardLeft(r) > 0
  /\ \A r \in Waiting : ~timerDue(r)
  /\ \A r \in Req : ~running(r)
  /\ LET timers == {nextTimer(r) : r \in {q \in Waiting : hardLeft(q) > 0}}
         d == IF (\E q \in TimedReq : pc[q] = "new") /\ listening
                 /\ (\A q \in Waiting : waited[q] < MaxSkew)
              THEN 1 ELSE SetMin(timers)
     IN /\ waited' = [r \in Req |-> IF r \in Waiting
                                    THEN Min(waited[r] + d, HardDeadlineMinutes)
                                    ELSE waited[r]]
        /\ sinceIdleSet' = IF sinceIdleSet < 0 THEN sinceIdleSet
                           ELSE Min(sinceIdleSet + d, TIMEOUT)
  /\ UNCHANGED <<filterVars, editorVars, signalVars, nativeVars, shutdownRequested, clientConn, program, hasInputContent,
                 inputChan, chanClosed, ctxCancelled, listening, exited,
                 shutdownPending, killSnap, producerVars, pc, msgs, reply,
                 wentBack, delivered>>

\* ---------------------------------------------------------------------------
\* Specifications
\* ---------------------------------------------------------------------------

\* the steps of an entered request handler other than its two timers
Serve(r) ==
  \/ ServeAccept(r)
  \/ RecvFirst(r)
  \/ RecvClosed(r)
  \/ DrainRecv(r)
  \/ DrainDone(r)
  \/ ServeFinish(r)
  \/ ServeRefused(r)

\* the two timers of the first-message select
Timers(r) ==
  \/ HardTimeout(r)
  \/ IdleElapsed(r)

Producer(limit) ==
  \/ ProducerTop
  \/ SessionStart
  \/ \E kind \in {"char", "clear", "other"} : SessionEvent(kind)
  \/ \E outcome \in {"submit", "abort", "exit", "fail"} : SessionEnd(outcome, limit)
  \/ SessionCancelled
  \/ PublishSend
  \/ PublishAbandon

Control ==
  \/ Kill
  \/ Shutdown
  \/ ProcessExit

\* Bursts: every request is served before a minute has passed.
Next ==
  \/ Control
  \/ Producer(MaxMsgs)
  \/ \E r \in Req : ServeCheck(r) \/ Serve(r)

Spec == Init /\ [][Next]_vars

\* Deadlines: the clock runs; one request and one operator-ended session less.
TimedNext ==
  \/ Control
  \/ Tick
  \/ Producer(MaxMsgs - 1)
  \/ \E r \in TimedReq : ServeCheck(r) \/ Serve(r) \/ Timers(r)

\* the producer's steps that do not wait for the operator
ProducerRuns ==
  \/ ProducerTop
  \/ SessionStart
  \/ SessionCancelled
  \/ PublishSend
  \/ PublishAbandon

TimedSpec == Init /\ [][TimedNext]_vars

\* Progress: the clock runs and a single request is followed to its end.
LiveReq == 1..(NumReq - 2)

LiveNext ==
  \/ Control
  \/ Tick
  \/ Producer(MaxMsgs - 1)
  \/ \E r \in LiveReq : ServeCheck(r) \/ Serve(r) \/ Timers(r)

\* Goroutines that can run do run and the clock advances; the operator and
\* the clients are free to do nothing.
LiveSpec ==
  /\ Init /\ [][LiveNext]_vars
  /\ WF_vars(Tick)
  /\ WF_vars(Shutdown)
  /\ WF_vars(ProcessExit)
  /\ WF_vars(ProducerRuns)
  /\ \A r \in LiveReq : WF_vars(Serve(r) \/ Timers(r))

\* Congestion: the operator ends one session more than the queue holds, and a
\* single request may take messages out.
CongestionNext ==
  \/ Control
  \/ Producer(QueueCap + 1)
  \/ \E r \in LiveReq : ServeCheck(r) \/ Serve(r)

CongestionSpec ==
  /\ Init /\ [][CongestionNext]_vars
  /\ WF_vars(Shutdown)
  /\ WF_vars(ProcessExit)
  /\ WF_vars(ProducerRuns)
  /\ \A r \in LiveReq : WF_vars(Serve(r))

\* ---------------------------------------------------------------------------
\* The section filter (parse.go)
\*
\* A string is the sequence of its characters and a document the sequence of
\* its lines (strings.Split(content, "\n")).  A line is a heading (it starts
\* with "#"), a fence (trimmed, it starts with the fence marker), the empty
\* line, or other text.  A heading is kept as its parts: its name, the text
\* between "(project:" and the next ")" if it has that directive, whether
\* the ")" is there, and whether a "(cursor-only)" group is in it.
\* ---------------------------------------------------------------------------
Line(kind, name, hasProject, project, closed, cursorOnly) ==
  [kind |-> kind, name |-> name, hasProject |-> hasProject,
   project |-> project, closed |-> closed, cursorOnly |-> cursorOnly]

TextLine == Line("text", "text", FALSE, <<>>, FALSE, FALSE)
BlankLine == Line("blank", "", FALSE, <<>>, FALSE, FALSE)
FenceLine == Line("fence", "fence", FALSE, <<>>, FALSE, FALSE)

\* "# name", "# name(project:<project>)", "# name(project:<project>" and the
\* same with " (cursor-only)" behind it
Heading(name, hasProject, project, closed, cursorOnly) ==
  Line("heading", name, hasProject, project, closed, cursorOnly)

\* ---- the directories and project specs of the model
PathRoot == <<"/">>
PathA == <<"/", "a">>
PathAB == <<"/", "a", "/", "b">>
PathABc == <<"/", "a", "/", "b", "c">>
PathABC == <<"/", "a", "/", "b", "/", "c">>
PathW == <<"/", "w">>
GlobA == <<"/", "a", "/", "*">>

\* " /a/b", the way a path stands in "(project: /a/b)"
Written(path) == <<" ">> \o path

Dirs == {PathAB, PathABc, PathABC, PathW}

Headings ==
  { Heading("General", FALSE, <<>>, FALSE, FALSE),
    Heading("Root", TRUE, Written(PathRoot), TRUE, FALSE),
    Heading("A", TRUE, Written(PathA), TRUE, FALSE),
    Heading("B", TRUE, Written(PathAB), TRUE, FALSE),
    Heading("W", TRUE, Written(PathW), TRUE, FALSE),
    Heading("Glob", TRUE, Written(GlobA), TRUE, FALSE),
    Heading("Cursor", FALSE, <<>>, FALSE, TRUE),
    Heading("CursorB", TRUE, Written(PathAB), TRUE, TRUE),
    Heading("Malformed", TRUE, Written(PathAB), FALSE, FALSE) }

Lines == Headings \cup {TextLine, BlankLine, FenceLine}

\* the documents of one to MaxLines lines
Documents == UNION { [1..n -> Lines] : n \in 1..MaxLines }

\* what git knows: no repository at all, or /a and /w are two checkouts
\* (worktrees, or clones with one origin) of the same repository
GitWorlds == { {}, {PathA, PathW} }

\* ---- package strings and path/filepath
HasPrefix(s, prefix) ==
  Len(prefix) <= Len(s) /\ SubSeq(s, 1, Len(prefix)) = prefix

RECURSIVE TrimLeft(_, _)
TrimLeft(s, c) ==
  IF s # <<>> /\ Head(s) = c THEN TrimLeft(Tail(s), c) ELSE s

RECURSIVE TrimRight(_, _)
TrimRight(s, c) ==
  IF s # <<>> /\ s[Len(s)] = c
  THEN TrimRight(SubSeq(s, 1, Len(s) - 1), c)
  ELSE s

Trim(s, c) == TrimRight(TrimLeft(s, c), c)

TrimSpace(s) == Trim(s, " ")

RECURSIVE SplitFrom(_, _, _)
SplitFrom(s, sep, piece) ==
  IF s = <<>> THEN <<piece>>
  ELSE IF Head(s) = sep
       THEN <<piece>> \o SplitFrom(Tail(s), sep, <<>>)
       ELSE SplitFrom(Tail(s), sep, Append(piece, Head(s)))

\* strings.Split: the empty string gives one empty piece
Split(s, sep) == SplitFrom(s, sep, <<>>)

RECURSIVE JoinSegments(_)
JoinSegments(segments) ==
  IF segments = <<>> THEN <<>>
  ELSE <<"/">> \o Head(segments) \o JoinSegments(Tail(segments))

IsNonEmpty(s) == s # <<>>

\* filepath.Clean of an absolute path without "." and ".." elements
Clean(path) ==
  LET segments == SelectSeq(Split(path, "/"), IsNonEmpty)
  IN  IF segments = <<>> THEN PathRoot ELSE JoinSegments(segments)

IsAbs(path) == path # <<>> /\ Head(path) = "/"

\* filepath.Join(cwd, path)
Join(cwd, path) == Clean(cwd \o <<"/">> \o path)

\* ---- git
\* a git command run in directory d works when d is inside a checkout
insideCheckout(d) ==
  \E root \in checkouts : d = root \/ HasPrefix(d, root \o <<"/">>)

\* "git worktree list" run in mainDir names targetDir
isWorktreeOf(targetDir, mainDir) ==
  insideCheckout(mainDir) /\ targetDir \in checkouts

haveSameMainWorktree(dir1, dir2) ==
  insideCheckout(dir1) /\ insideCheckout(dir2)

isWorktreeRelated(currentDir, projectDir) ==
  \/ isWorktreeOf(currentDir, projectDir)
  \/ isWorktreeOf(projectDir, currentDir)
  \/ haveSameMainWorktree(currentDir, projectDir)

hasSameGitOrigin(currentDir, projectDir) ==
  insideCheckout(currentDir) /\ insideCheckout(projectDir)

isGitWorktree(currentDir, projectDir) ==
  isWorktreeRelated(currentDir, projectDir)
    \/ hasSameGitOrigin(currentDir, projectDir)

\* ---- matching one heading
GlobChars == {"*", "?", "[", "]", "{", "}"}

containsGlobPattern(path) == \E i \in 1..Len(path) : path[i] \in GlobChars

\* glob.Compile(pattern, separator).Match(s) for patterns whose only
\* metacharacter is "*": it stands for any run of characters other than "/"
RECURSIVE GlobMatch(_, _)
GlobMatch(pattern, s) ==
  IF pattern = <<>> THEN s = <<>>
  ELSE IF Head(pattern) = "*"
       THEN \/ GlobMatch(Tail(pattern), s)
            \/ s # <<>> /\ Head(s) # "/" /\ GlobMatch(pattern, Tail(s))
       ELSE s # <<>> /\ Head(s) = Head(pattern)
              /\ GlobMatch(Tail(pattern), Tail(s))

hasCursorOnlyNever(heading) == FALSE

hasCursorOnlyDirective(heading) == heading.cursorOnly

Match(include, reason, projectPath, specificity) ==
  [include |-> include, MatchReason |-> reason, ProjectPath |-> projectPath,
   Specificity |-> specificity]

NoMatch == Match(FALSE, "None", <<>>, 0)
NoProjectExcluded == Match(FALSE, "None", <<>>, 0)

NoProjectMatch == Match(TRUE, "NoProject", <<>>, 0)

GlobBase == 1000

\* len(strings.Split(strings.Trim(absProjectPath, "/"), "/"))
pathDepth(absProjectPath) == Len(Split(Trim(absProjectPath, "/"), "/"))

globSpecificity(absProjectPath) ==
  GlobBase + Len(SelectSeq(Split(Trim(absProjectPath, "/"), "/"),
                           LAMBDA segment : ~containsGlobPattern(segment)))

shouldIncludeSection(heading, cwd, cursor) ==
  IF hasCursorOnlyDirective(heading) /\ ~cursor THEN NoMatch
  ELSE IF ~heading.hasProject THEN NoProjectMatch
  ELSE IF ~heading.closed THEN NoProjectMatch
  ELSE
    LET projectPath == TrimSpace(heading.project)
        absProjectPath ==
          Clean(IF IsAbs(projectPath) THEN projectPath
                ELSE Join(cwd, projectPath))
        absCwd == Clean(cwd)
        specificity ==
          IF containsGlobPattern(projectPath)
          THEN globSpecificity(absProjectPath)
          ELSE pathDepth(absProjectPath)
    IN  IF containsGlobPattern(projectPath)
        THEN IF GlobMatch(absProjectPath, absCwd)
             THEN Match(TRUE, "GlobMatch", absProjectPath, specificity)
             ELSE NoMatch
        ELSE IF HasPrefix(absCwd, absProjectPath)
        THEN Match(TRUE, "PathMatch", absProjectPath, specificity)
        ELSE IF isGitWorktree(absCwd, absProjectPath)
        THEN Match(TRUE, "GitWorktree", absProjectPath, specificity)
        ELSE NoMatch

\* ---- sections
Section(title, body) == [Title |-> title, Content |-> body]

NoSection == Section(BlankLine, <<>>)

\* Content += "\n" + line, the "\n" only when Content is not empty: an empty
\* line added to the empty Content leaves it empty
addLine(body, line) ==
  IF body = <<>> /\ line = BlankLine THEN <<>> ELSE Append(body, line)

RECURSIVE parseFromNoFence(_, _, _, _, _)
parseFromNoFence(lines, sections, currentSection, hasCurrent, inCodeBlock) ==
  IF lines = <<>>
  THEN IF hasCurrent THEN Append(sections, currentSection) ELSE sections
  ELSE
    LET line == Head(lines)
    IN  IF line.kind = "heading"
        THEN parseFromNoFence(Tail(lines),
                              IF hasCurrent
                              THEN Append(sections, currentSection)
                              ELSE sections,
                              Section(line, <<>>), TRUE, inCodeBlock)
        ELSE parseFromNoFence(Tail(lines), sections,
                              IF hasCurrent
                              THEN Section(currentSection.Title,
                                           addLine(currentSection.Content,
                                                   line))
                              ELSE currentSection,
                              hasCurrent, inCodeBlock)

RECURSIVE parseFrom(_, _, _, _, _)
parseFrom(lines, sections, currentSection, hasCurrent, inCodeBlock) ==
  IF lines = <<>>
  THEN IF hasCurrent THEN Append(sections, currentSection) ELSE sections
  ELSE
    LET line == Head(lines)
        inCode == IF line.kind = "fence" THEN ~inCodeBlock ELSE inCodeBlock
    IN  IF ~inCode /\ line.kind = "heading"
        THEN parseFrom(Tail(lines),
                       IF hasCurrent THEN Append(sections, currentSection)
                       ELSE sections,
                       Section(line, <<>>), TRUE, inCode)
        ELSE parseFrom(Tail(lines), sections,
                       IF hasCurrent
                       THEN Section(currentSection.Title,
                                    addLine(currentSection.Content, line))
                       ELSE currentSection,
                       hasCurrent, inCode)

parseSections(lines) == parseFrom(lines, <<>>, NoSection, FALSE, FALSE)

SectionMatch(section, m) ==
  [Section |-> section, MatchReason |-> m.MatchReason,
   ProjectPath |-> m.ProjectPath, Specificity |-> m.Specificity]

\* ---- the final selection
RECURSIVE maxSpecificity(_, _)
maxSpecificity(matches, best) ==
  IF matches = <<>> THEN best
  ELSE maxSpecificity(Tail(matches),
                      IF Head(matches).Specificity > best
                      THEN Head(matches).Specificity ELSE best)

\* the first match of found that has the section of original, if any
RECURSIVE sameSection(_, _)
sameSection(original, found) ==
  IF found = <<>> THEN <<>>
  ELSE IF original.Section.Title = Head(found).Section.Title
          /\ original.Section.Content = Head(found).Section.Content
       THEN <<Head(found)>>
       ELSE sameSection(original, Tail(found))

groupOrder(matches, found) == found

RECURSIVE orderedResult(_, _)
orderedResult(matches, found) ==
  IF matches = <<>> THEN <<>>
  ELSE sameSection(Head(matches), found) \o orderedResult(Tail(matches), found)

selectGlobsAsExact(matches) ==
  LET noProjectMatches ==
        SelectSeq(matches, LAMBDA m : m.MatchReason = "NoProject")
      exactMatches ==
        SelectSeq(matches, LAMBDA m : m.MatchReason # "NoProject")
      maxExactSpecificity == maxSpecificity(exactMatches, 0)
  IN  orderedResult(matches,
        noProjectMatches
          \o SelectSeq(exactMatches,
                       LAMBDA m : m.Specificity = maxExactSpecificity))

selectMostSpecificMatches(matches) ==
  LET noProjectMatches ==
        SelectSeq(matches, LAMBDA m : m.MatchReason = "NoProject")
      globMatches ==
        SelectSeq(matches, LAMBDA m : m.MatchReason = "GlobMatch")
      exactMatches ==
        SelectSeq(matches,
                  LAMBDA m : m.MatchReason \notin {"NoProject", "GlobMatch"})
      maxExactSpecificity == maxSpecificity(exactMatches, 0)
  IN  IF matches = <<>> THEN matches
      ELSE orderedResult(matches,
             noProjectMatches
               \o SelectSeq(exactMatches,
                            LAMBDA m : m.Specificity = maxExactSpecificity)
               \o globMatches)

replaceNothing(heading, actualDir) == heading

replaceProjectPath(heading, actualDir) ==
  IF ~heading.hasProject THEN heading
  ELSE IF ~heading.closed THEN heading
  ELSE [heading EXCEPT !.project = Written(actualDir)]

\* ---- one pass
RECURSIVE collectMatches(_, _, _)
collectMatches(sections, cwd, cursor) ==
  IF sections = <<>> THEN <<>>
  ELSE LET m == shouldIncludeSection(Head(sections).Title, cwd, cursor)
       IN  (IF m.include THEN <<SectionMatch(Head(sections), m)>> ELSE <<>>)
             \o collectMatches(Tail(sections), cwd, cursor)

filteredSection(match, cwd) ==
  IF match.MatchReason = "GitWorktree"
  THEN Section(replaceProjectPath(match.Section.Title, cwd),
               match.Section.Content)
  ELSE match.Section

\* strings.Join(result, "\n"), result holding each Title and each non-empty
\* Content; nothing to join gives the empty string, which is one empty line
RECURSIVE joinSections(_)
joinSections(sections) ==
  IF sections = <<>> THEN <<>>
  ELSE <<Head(sections).Title>> \o Head(sections).Content
         \o joinSections(Tail(sections))

filterContentByDir(lines, cwd, cursor) ==
  LET sections == parseSections(lines)
      matches == collectMatches(sections, cwd, cursor)
      selected == selectMostSpecificMatches(matches)
      filteredSections ==
        [i \in 1..Len(selected) |-> filteredSection(selected[i], cwd)]
  IN  [matches |-> selected,
       sections |-> filteredSections,
       result |-> IF filteredSections = <<>> THEN <<BlankLine>>
                  ELSE joinSections(filteredSections)]

\* ---- the filter applied to a document, once and a second time to its result
FilterInit ==
  /\ BrokerInit
  /\ NewSession
  /\ NoTimerMsg
  /\ NoCollection
  /\ document \in Documents
  /\ dir \in Dirs
  /\ isCursor \in BOOLEAN
  /\ checkouts \in GitWorlds
  /\ passes = 0
  /\ filteredMatches = <<>>
  /\ firstResult = <<>>
  /\ result = <<>>

FilterDocument ==
  /\ passes = 0
  /\ document # <<>>
  /\ LET f == filterContentByDir(document, dir, isCursor)
     IN  /\ filteredMatches' = f.matches
         /\ firstResult' = f.result
         /\ result' = f.result
  /\ passes' = 1
  /\ UNCHANGED <<brokerVars, producerVars, responderVars, editorVars, signalVars, nativeVars,
                 document, dir,
                 isCursor, checkouts>>

FilterAgain ==
  /\ passes = 1
  /\ LET f == filterContentByDir(result, dir, isCursor)
     IN  /\ filteredMatches' = f.matches
         /\ result' = f.result
  /\ passes' = 2
  /\ UNCHANGED <<brokerVars, producerVars, responderVars, editorVars, signalVars, nativeVars,
                 document, dir,
                 isCursor, checkouts, firstResult>>

FilterNext ==
  \/ FilterDocument
  \/ FilterAgain

FilterSpec == FilterInit /\ [][FilterNext]_vars

\* ---------------------------------------------------------------------------
\* The Terminal Input Session (input_model.go, readline.go)
\*
\* The textarea holds lines and a line holds words: the three tokens and
\* text, each text word numbered by the key that typed it.  There is no
\* white space inside a line, so trimming a line changes nothing, and
\* trimming the whole value takes the empty lines off both ends.  Keys are
\* typed at the end of the value.  Time is counted in seconds.
\* ---------------------------------------------------------------------------
Word(w, n) == [w |-> w, n |-> n]

TokenEND == Word("END", 0)
TokenCLEAR == Word("CLEAR", 0)
TokenExit == Word("exit", 0)

\* the empty string: one line without words
EmptyText == << <<>> >>

\* strings.TrimSpace of a value
TrimText(text) ==
  LET t == Trim(text, <<>>) IN IF t = <<>> THEN EmptyText ELSE t

\* textarea.Length() > 0
HasLength(text) == text # EmptyText

lastLineOf(text) == text[Len(text)]

\* strings.HasSuffix(line, "END")
EndsWithEND(line) == line # <<>> /\ line[Len(line)] = TokenEND

\* strings.TrimSuffix(line, "END")
WithoutEND(line) ==
  IF EndsWithEND(line) THEN SubSeq(line, 1, Len(line) - 1) ELSE line

withLastLine(text, line) == [text EXCEPT ![Len(text)] = line]

\* the numbers of the text words in a value
textWords(text) ==
  UNION { { text[i][j].n : j \in 1..Len(text[i]) } : i \in 1..Len(text) }
    \ {0}

\* ---- Update: what every message does first
storeHasInputOf(text) == hasInput' = HasLength(text)

\* the running program takes messages until tea.Quit
sessionRuns == ~quit

\* ---- what Update returns for a key: the model as it is, or with the
\* textarea reset, or cancelled, or finished with a content, the last two
\* together with tea.Quit
Keep ==
  [text |-> textarea, finished |-> finished, cancelled |-> mCancelled,
   content |-> mContent, quit |-> quit, exit |-> inputExited,
   reset |-> FALSE]

\* (variant: the reset leaves the text where it is)
ResetKeepsText == [Keep EXCEPT !.reset = TRUE]

\* m.textarea.Reset(); return m, nil
Reset == [Keep EXCEPT !.text = EmptyText, !.reset = TRUE]

Cancel == [Keep EXCEPT !.cancelled = TRUE, !.quit = TRUE]

CancelWithExit == [Cancel EXCEPT !.exit = TRUE]

Submit(text) == [Keep EXCEPT !.content = text, !.finished = TRUE, !.quit = TRUE]

\* case tea.KeyCtrlS, and tea.KeyCtrlD falling through
onCtrlS(text) ==
  LET trimmed == TrimText(text)
      body == IF EndsWithEND(lastLineOf(trimmed))
              THEN TrimText(withLastLine(trimmed,
                                         WithoutEND(lastLineOf(trimmed))))
              ELSE text
  IN  IF TrimText(body) = << <<TokenCLEAR>> >> THEN Reset
      ELSE IF TrimText(body) = << <<TokenExit>> >> THEN Keep
      ELSE Submit(body)

\* (variant: the conditional key submits an empty buffer too)
onCtrlDAlwaysSubmits(text) == onCtrlS(text)

\* case tea.KeyCtrlD: abort on an empty buffer, else as Ctrl+S
onCtrlD(text) ==
  IF TrimText(text) = EmptyText THEN Cancel ELSE onCtrlS(text)

\* case tea.KeyEnter; without a token the key goes on to the textarea
onEnter(text) ==
  LET lastLine == lastLineOf(text)
  IN  IF lastLine = <<TokenCLEAR>> THEN Reset
      ELSE IF lastLine = <<TokenExit>> THEN CancelWithExit
      ELSE IF EndsWithEND(lastLine)
      THEN Submit(TrimText(
             IF lastLine = <<TokenEND>>
             THEN IF Len(text) > 1 THEN SubSeq(text, 1, Len(text) - 1)
                  ELSE EmptyText
             ELSE withLastLine(text, WithoutEND(lastLine))))
      ELSE [Keep EXCEPT !.text = Append(text, <<>>)]

\* any other key: m.textarea.Update(msg)
onChar(text, word) ==
  [Keep EXCEPT !.text = withLastLine(text, Append(lastLineOf(text), word))]

\* ---- one key message.  entered is the line an Enter closes, control tells
\* a control key from typing
press(after, entered, control) ==
  /\ storeHasInputOf(textarea)
  /\ textarea' = after.text
  /\ finished' = after.finished
  /\ mCancelled' = after.cancelled
  /\ mContent' = after.content
  /\ quit' = after.quit
  /\ inputExited' = after.exit
  /\ discarded' =
       IF after.reset THEN discarded \cup textWords(textarea) ELSE discarded
  /\ keys' = keys + 1
  /\ typedAt' =
       IF typedAt = -1 /\ ~control /\ HasLength(after.text)
            /\ after.text # textarea
       THEN sinceBegin ELSE typedAt
  /\ typedLines' = typedLines \o entered
  /\ lineOnly' = (lineOnly /\ ~control)
  /\ UNCHANGED <<timerFrozen, frozenTime, sinceBegin, tickIn, fallbackVars,
                 brokerVars, producerVars, responderVars, filterVars,
                 signalVars, nativeVars>>

KeyChar(w, limit) ==
  /\ sessionRuns
  /\ keys < limit
  /\ press(onChar(textarea,
                  IF w = "text" THEN Word(w, keys + 1) ELSE Word(w, 0)),
           <<>>, FALSE)

KeyEnter(limit) ==
  /\ sessionRuns
  /\ keys < limit
  /\ press(onEnter(textarea), <<lastLineOf(textarea)>>, FALSE)

KeyCtrlS(limit) ==
  /\ sessionRuns
  /\ keys < limit
  /\ press(onCtrlS(textarea), <<>>, TRUE)

KeyCtrlD(limit) ==
  /\ sessionRuns
  /\ keys < limit
  /\ press(onCtrlD(textarea), <<>>, TRUE)

\* tea.KeyCtrlC and tea.KeyEsc
KeyCancel(limit) ==
  /\ sessionRuns
  /\ keys < limit
  /\ press(Cancel, <<>>, TRUE)

\* ---- the countdown
\* if needProcessTick: the remaining time is captured once, when the flag is
\* up and the timer is not frozen yet
freezeTimer(elapsed) ==
  IF hasInput' /\ ~timerFrozen
  THEN /\ frozenTime' = SessionSeconds - elapsed
       /\ timerFrozen' = TRUE
  ELSE UNCHANGED <<frozenTime, timerFrozen>>

\* timerTickMsg, one second after Init asked for it; Update asks for no other
TimerTick ==
  /\ sessionRuns
  /\ tickIn = 0
  /\ storeHasInputOf(textarea)
  /\ freezeTimer(sinceBegin)
  /\ tickIn' = -1
  /\ UNCHANGED <<modelVars, sinceBegin, inputVars, fallbackVars,
                 brokerVars, producerVars, responderVars, filterVars,
                 signalVars, nativeVars>>

\* enableTimerMsg: the countdown starts again
EnableTimer ==
  /\ sessionRuns
  /\ storeHasInputOf(textarea)
  /\ sinceBegin' = 0
  /\ freezeTimer(0)
  /\ UNCHANGED <<modelVars, tickIn, inputVars, fallbackVars,
                 brokerVars, producerVars, responderVars, filterVars,
                 signalVars, nativeVars>>

\* disableTimerMsg and the cursor's blink: Update stores the flag, no more
OtherMessage ==
  /\ sessionRuns
  /\ hasInput # HasLength(textarea)
  /\ storeHasInputOf(textarea)
  /\ UNCHANGED <<modelVars, timerFrozen, frozenTime, sinceBegin, tickIn,
                 inputVars, fallbackVars,
                 brokerVars, producerVars, responderVars, filterVars,
                 signalVars, nativeVars>>

\* a second passes; a message that is due is taken first
Second ==
  /\ sessionRuns
  /\ tickIn # 0
  /\ sinceBegin < SessionSeconds
  /\ sinceBegin' = sinceBegin + 1
  /\ tickIn' = IF tickIn > 0 THEN tickIn - 1 ELSE tickIn
  /\ UNCHANGED <<modelVars, hasInput, timerFrozen, frozenTime, inputVars,
                 fallbackVars,
                 brokerVars, producerVars, responderVars, filterVars,
                 signalVars, nativeVars>>

\* View of the session that computes the prompt itself: the remaining
\* seconds it shows, 0 when it shows none
displayedRemaining ==
  LET remaining ==
        IF timerFrozen THEN frozenTime
        ELSE IF ~hasInput THEN SessionSeconds - sinceBegin
        ELSE 0
  IN  IF remaining > 0 THEN remaining ELSE 0

\* ---- readInputFromTerminal's return and createInput's join: the text is
\* the lines of the content that are not empty
terminalLines(text) == SelectSeq(text, IsNonEmpty)

sessionState ==
  IF ~quit THEN "Editing"
  ELSE IF mCancelled THEN "Aborted"
  ELSE "Submitted"

\* ---- readInputFromNonTerminal, reading the lines the operator entered
FallbackRead ==
  /\ fbState = "Reading"
  /\ fbPos < Len(typedLines)
  /\ fbPos' = fbPos + 1
  /\ LET in == typedLines[fbPos + 1]
     IN  IF in = <<>>
         THEN UNCHANGED <<fbLines, fbState, fbDiscarded>>
         ELSE IF in = <<TokenExit>> /\ Len(fbLines) = 0
         THEN /\ fbState' = "Aborted"
              /\ UNCHANGED <<fbLines, fbDiscarded>>
         ELSE IF EndsWithEND(in)
         THEN /\ fbLines' = IF WithoutEND(in) # <<>>
                            THEN Append(fbLines, WithoutEND(in))
                            ELSE fbLines
              /\ fbState' = "Submitted"
              /\ UNCHANGED fbDiscarded
         ELSE IF in = <<TokenCLEAR>>
         THEN /\ fbLines' = <<>>
              /\ fbDiscarded' = fbDiscarded \cup textWords(fbLines)
              /\ UNCHANGED fbState
         ELSE /\ fbLines' = Append(fbLines, in)
              /\ UNCHANGED <<fbState, fbDiscarded>>
  /\ UNCHANGED <<modelVars, timerVars, inputVars,
                 brokerVars, producerVars, responderVars, filterVars,
                 signalVars, nativeVars>>

Words == {"text", "END", "CLEAR", "exit"}

Keys(limit) ==
  \/ \E w \in Words : KeyChar(w, limit)
  \/ KeyEnter(limit)
  \/ KeyCtrlS(limit)
  \/ KeyCtrlD(limit)
  \/ KeyCancel(limit)

\* The editor: keys only, and the fallback reading the same lines.
EditorNext ==
  \/ Keys(MaxKeys)
  \/ FallbackRead

EditorSpec == Init /\ [][EditorNext]_vars

\* The countdown: the clock runs and the broker's signals arrive; fewer keys.
CountdownNext ==
  \/ Keys(MaxKeys - 3)
  \/ Second
  \/ TimerTick
  \/ EnableTimer
  \/ OtherMessage

CountdownSpec == Init /\ [][CountdownNext]_vars

\* ---------------------------------------------------------------------------
\* Timer messages from the caller count to the running program
\* ---------------------------------------------------------------------------
\* program.Send hands the message to the program's event loop and returns when
\* the loop has taken it; the loop runs Update on it before it takes another.

\* the program can take a message: it runs and Update is not owed one
canSend == program /\ inbox = "none"

\* notifyRequestAccepted, whole: count up, and with a program running send
\* enableTimerMsg
CallerAccepted ==
  /\ clientConn < NumReq
  /\ program => canSend
  /\ notifyRequestAccepted
  /\ inbox' = IF program THEN "enable" ELSE inbox
  /\ UNCHANGED <<shutdownRequested, sinceIdleSet, program, hasInputContent,
                 inputChan, chanClosed, ctxCancelled, listening, exited,
                 shutdownPending, killSnap, producerVars, responderVars,
                 filterVars, nativeVars, editorVars, spawnedMsg, lastTimerMsg>>

\* notifyRequestFinished, whole: count down, and with a program running send
\* disableTimerMsg when the count has come to zero
CallerFinished ==
  /\ clientConn > 0
  /\ (program /\ clientConn = 1) => canSend
  /\ notifyRequestFinished
  /\ inbox' = IF program /\ clientConn = 1 THEN "disable" ELSE inbox
  /\ UNCHANGED <<shutdownRequested, sinceIdleSet, program, hasInputContent,
                 inputChan, chanClosed, ctxCancelled, listening, exited,
                 shutdownPending, killSnap, producerVars, responderVars,
                 filterVars, nativeVars, editorVars, spawnedMsg, lastTimerMsg>>

\* onCreatedProgram: setProgram(program) for a session that starts, with
\* "go program.Send" of the message the count asks for
ProgramCreated ==
  /\ ~program
  /\ produced < MaxMsgs
  /\ setProgram(TRUE)
  /\ spawnedMsg' = IF clientConn = 0 THEN "disable" ELSE "enable"
  /\ inbox' = "none"
  /\ lastTimerMsg' = "none"
  /\ hasInput' = FALSE
  /\ timerFrozen' = FALSE
  /\ frozenTime' = 0
  /\ sinceBegin' = 0
  /\ tickIn' = 1
  /\ UNCHANGED <<shutdownRequested, clientConn, sinceIdleSet, hasInputContent,
                 inputChan, chanClosed, ctxCancelled, listening, exited,
                 shutdownPending, killSnap, producerVars, responderVars,
                 filterVars, nativeVars, modelVars, inputVars, fallbackVars>>

\* onProgramFinished: setProgram(nil); what was on its way to the program is
\* lost with it
ProgramFinished ==
  /\ program
  /\ setProgram(FALSE)
  /\ produced' = produced + 1
  /\ spawnedMsg' = "none"
  /\ inbox' = "none"
  /\ UNCHANGED <<shutdownRequested, clientConn, sinceIdleSet, hasInputContent,
                 inputChan, chanClosed, ctxCancelled, listening, exited,
                 shutdownPending, killSnap, prodPc, pendingMsg,
                 runningSessions, taLen, lastEnd, responderVars, filterVars, nativeVars,
                 editorVars, lastTimerMsg>>

\* the goroutine of setProgram gets to its program.Send
SpawnedSend ==
  /\ spawnedMsg # "none"
  /\ canSend
  /\ inbox' = spawnedMsg
  /\ spawnedMsg' = "none"
  /\ UNCHANGED <<brokerVars, producerVars, responderVars, filterVars, nativeVars,
                 editorVars, lastTimerMsg>>

\* Update on the timer message received: enableTimerMsg starts the countdown
\* again from now, disableTimerMsg changes nothing
UpdateTimerMsg ==
  /\ program
  /\ inbox # "none"
  /\ storeHasInputOf(textarea)
  /\ IF inbox = "enable"
     THEN /\ sinceBegin' = 0
          /\ freezeTimer(0)
     ELSE UNCHANGED <<sinceBegin, timerFrozen, frozenTime>>
  /\ lastTimerMsg' = inbox
  /\ inbox' = "none"
  /\ UNCHANGED <<brokerVars, producerVars, responderVars, filterVars, nativeVars,
                 modelVars, tickIn, inputVars, fallbackVars, spawnedMsg>>

\* the seconds of the running program's countdown, and its tick
CountdownRuns ==
  /\ program
  /\ Second \/ TimerTick

\* Callers come and go while sessions start and end.
TimerMsgNext ==
  \/ CallerAccepted
  \/ CallerFinished
  \/ ProgramCreated
  \/ ProgramFinished
  \/ SpawnedSend
  \/ UpdateTimerMsg
  \/ CountdownRuns

TimerMsgSpec == Init /\ [][TimerMsgNext]_vars

\* ---------------------------------------------------------------------------
\* Native collection: createInput (parse.go), acceptInput (whats_next.go)
\* ---------------------------------------------------------------------------
\* createInput starts one goroutine that reads the input, from the terminal
\* session or from the plain stdin reader, and offers its Result on the
\* unbuffered channel done; createInput itself selects on done and on
\* time.After(TIMEOUT).

\* everything createInput leaves alone
besideCollection ==
  <<brokerVars, producerVars, responderVars, filterVars, signalVars,
    modelVars, timerFrozen, frozenTime, sinceBegin, tickIn, inputVars,
    fallbackVars>>

\* the Result's Error is not nil
resultIsError == sessionEnd \in {"fail", "timeout"}

\* the goroutine starts: term.IsTerminal(int(os.Stdin.Fd()))
CollectorStarts(isTerminal) ==
  /\ collectorPc = "start"
  /\ stdinIsTerminal' = IF isTerminal THEN "terminal" ELSE "pipe"
  /\ collectorPc' = "reading"
  /\ UNCHANGED <<besideCollection, hasInput, sessionEnd, callPc, callReturn,
                 collectCtxDone, written, sinceCall, buffered, inputEvents>>

\* an event that does not end the read.  Terminal: Update stores the flag from
\* the textarea as it was, then the key goes to the textarea.  Plain reader: a
\* line has been read, the flag is set.
InputArrives ==
  /\ collectorPc = "reading"
  /\ inputEvents < MaxInputEvents
  /\ inputEvents' = inputEvents + 1
  /\ IF stdinIsTerminal = "terminal"
     THEN /\ hasInput' = buffered
          /\ buffered' = TRUE
     ELSE /\ hasInput' = TRUE
          /\ UNCHANGED buffered
  /\ UNCHANGED <<besideCollection, stdinIsTerminal, collectorPc, sessionEnd,
                 callPc, callReturn, collectCtxDone, written, sinceCall>>

\* the read returns (submitted, the exit token, or a failure of the read),
\* the goroutine writes what it has to write and goes to its send on done
ReadReturns(outcome) ==
  /\ collectorPc = "reading"
  /\ outcome = "fail" /\ stdinIsTerminal = "terminal" => ~collectCtxDone
  /\ sessionEnd' = outcome
  /\ hasInput' = IF outcome = "fail" THEN hasInput
                 ELSE IF stdinIsTerminal = "terminal" THEN buffered
                 ELSE TRUE
  /\ written' = IF outcome = "fail" THEN written
                ELSE IF outcome = "exit" THEN Append(written, "exit")
                ELSE Append(written, "question")
  /\ collectorPc' = "offering"
  /\ UNCHANGED <<besideCollection, stdinIsTerminal, callPc, callReturn,
                 collectCtxDone, sinceCall, buffered, inputEvents>>

\* readInputFromTerminal under a cancelled context: program.Run returns an
\* error and the read reports "timeout"
ReadCancelled ==
  /\ collectorPc = "reading"
  /\ stdinIsTerminal = "terminal"
  /\ collectCtxDone
  /\ sessionEnd' = "timeout"
  /\ collectorPc' = "offering"
  /\ UNCHANGED <<besideCollection, hasInput, stdinIsTerminal, callPc,
                 callReturn, collectCtxDone, written, sinceCall, buffered,
                 inputEvents>>

\* time passes while createInput is in its select
CollectSecond ==
  /\ callPc = "select"
  /\ sinceCall < TIMEOUT
  /\ sinceCall' = sinceCall + 1
  /\ UNCHANGED <<besideCollection, hasInput, stdinIsTerminal, collectorPc,
                 sessionEnd, callPc, callReturn, collectCtxDone, written,
                 buffered, inputEvents>>

\* select, case result := <-done: cancel, return result.Error
CallReceives ==
  /\ callPc = "select"
  /\ collectorPc = "offering"
  /\ collectorPc' = "gone"
  /\ collectCtxDone' = TRUE
  /\ callReturn' = IF resultIsError THEN "error" ELSE "nil"
  /\ callPc' = "returned"
  /\ UNCHANGED <<besideCollection, hasInput, stdinIsTerminal, sessionEnd,
                 written, sinceCall, buffered, inputEvents>>

\* select, case <-time.After(TIMEOUT): with nothing typed cancel and wait for
\* done to write the filler, else wait for done
CallTimesOut ==
  /\ callPc = "select"
  /\ sinceCall = TIMEOUT
  /\ IF ~hasInput
     THEN /\ collectCtxDone' = TRUE
          /\ callPc' = "joinCancelled"
     ELSE /\ callPc' = "join"
          /\ UNCHANGED collectCtxDone
  /\ UNCHANGED <<besideCollection, hasInput, stdinIsTerminal, collectorPc,
                 sessionEnd, callReturn, written, sinceCall, buffered,
                 inputEvents>>

\* <-done after cancel(): the filler is written, nil is returned
CallJoinsCancelled ==
  /\ callPc = "joinCancelled"
  /\ collectorPc = "offering"
  /\ collectorPc' = "gone"
  /\ written' = Append(written, "thinking")
  /\ callReturn' = "nil"
  /\ callPc' = "returned"
  /\ UNCHANGED <<besideCollection, hasInput, stdinIsTerminal, sessionEnd,
                 collectCtxDone, sinceCall, buffered, inputEvents>>

\* "wait forever for done": <-done, then the return nil at the end, with the
\* deferred cancel
CallJoins ==
  /\ callPc = "join"
  /\ collectorPc = "offering"
  /\ collectorPc' = "gone"
  /\ callReturn' = "nil"
  /\ callPc' = "returned"
  /\ collectCtxDone' = TRUE
  /\ UNCHANGED <<besideCollection, hasInput, stdinIsTerminal, sessionEnd,
                 written, sinceCall, buffered, inputEvents>>

\* what the code does by itself, once the input is what it is
CollectionRuns ==
  \/ \E t \in BOOLEAN : CollectorStarts(t)
  \/ ReadCancelled
  \/ CollectSecond
  \/ CallReceives
  \/ CallTimesOut
  \/ CallJoinsCancelled
  \/ CallJoins

NativeNext ==
  \/ CollectionRuns
  \/ InputArrives
  \/ \E o \in {"text", "exit", "fail"} : ReadReturns(o)

NativeSpec == Init /\ [][NativeNext]_vars

\* The code is scheduled; the operator and stdin owe nothing.
NativeLiveSpec == NativeSpec /\ WF_vars(CollectionRuns)

\* ---------------------------------------------------------------------------
\* Properties of the broker
\* ---------------------------------------------------------------------------

\* C1: under every interleaving of the producer loop, the responders and
\* shutdown, at most one Terminal Input Session runs at any time, and a
\* session is only ever started by the producer loop: a step that starts one
\* is the producer's step from "starting" to "session" and changes nothing of
\* any responder.
C1_SingleSession ==
  /\ [](runningSessions <= 1)
  /\ [](runningSessions = 1 <=> prodPc = "session")
  /\ [][runningSessions' > runningSessions =>
          /\ prodPc = "starting" /\ prodPc' = "session"
          /\ responderVars' = responderVars]_vars

\* a session runs while two responders wait and shutdown has been requested
C1_Witness ==
  /\ runningSessions = 1
  /\ Cardinality(Waiting) >= 2
  /\ shutdownRequested

\* C3: no InputMessage is delivered twice: the ids dequeued so far are
\* pairwise distinct, a message held by one responder is held by no other
\* responder and is no longer in the queue, and nothing dequeued is still
\* queued.
C3_NoDoubleDelivery ==
  /\ \A i, j \in DOMAIN delivered : i # j => delivered[i] # delivered[j]
  /\ \A i \in DOMAIN delivered : \A j \in DOMAIN inputChan :
        inputChan[j].id # delivered[i]
  /\ \A r \in Req : \A i \in DOMAIN msgs[r] :
        msgs[r][i] # ZeroMessage =>
          /\ \A q \in Req \ {r} : \A j \in DOMAIN msgs[q] :
                msgs[q][j].id # msgs[r][i].id
          /\ \A j \in DOMAIN inputChan : inputChan[j].id # msgs[r][i].id
          /\ \E j \in DOMAIN delivered : delivered[j] = msgs[r][i].id

\* three callers waited, one session ended with a non-empty text: one caller
\* holds that message, the other two still wait with nothing
C3_Witness ==
  \E r \in Req :
    /\ pc[r] = "drain"
    /\ Len(msgs[r]) = 1 /\ msgs[r][1].Content # 0
    /\ delivered = <<msgs[r][1].id>> /\ inputChan = <<>>
    /\ Cardinality(Waiting) = 2
    /\ \A q \in Waiting : msgs[q] = <<>>

\* C4: messages reach responders in the order they were produced: the queue
\* holds them in production order, they are dequeued in production order,
\* each responder collects them in production order, and the texts of a
\* question reply are the texts of the collected messages in that order.
C4_Fifo ==
  /\ \A i, j \in DOMAIN inputChan : i < j => inputChan[i].id < inputChan[j].id
  /\ \A i, j \in DOMAIN delivered : i < j => delivered[i] < delivered[j]
  /\ \A r \in Req :
       /\ \A i, j \in DOMAIN msgs[r] :
            (i < j /\ msgs[r][j] # ZeroMessage) => msgs[r][i].id < msgs[r][j].id
       /\ (pc[r] = "finish" /\ reply[r][1].kind = "question") =>
            reply[r][1].text = [i \in 1..Len(msgs[r]) |-> msgs[r][i].Content]

\* one responder collected two texts and replied with them in production order
C4_Witness ==
  \E r \in Req :
    /\ pc[r] = "finish"
    /\ reply[r][1].kind = "question"
    /\ reply[r][1].text = <<1, 2>>

\* C7: a primary request that is checked after shutdown was requested is
\* answered with 503 and is not accepted: the step leaves the caller count,
\* the idle deadline, the queue and every msgs slice as they are, and the
\* refused handler then only returns, again without touching any of them.
C7_RefusedAfterShutdown ==
  [][\A r \in Req :
       /\ (pc[r] = "new" /\ pc'[r] # "new" /\ shutdownRequested) =>
            /\ pc'[r] = "refused"
            /\ reply'[r] = <<Reply(503, "shutting down", <<>>)>>
            /\ clientConn' = clientConn /\ sinceIdleSet' = sinceIdleSet
            /\ inputChan' = inputChan /\ msgs' = msgs /\ delivered' = delivered
       /\ (pc[r] = "refused" /\ pc'[r] # "refused") =>
            /\ pc'[r] = "done"
            /\ clientConn' = clientConn /\ sinceIdleSet' = sinceIdleSet
            /\ inputChan' = inputChan /\ msgs' = msgs /\ delivered' = delivered]_vars

\* a request was refused with 503 while an accepted caller is still waiting
C7_Witness ==
  \E r, q \in Req :
    /\ pc[r] = "refused" /\ reply[r] = <<Reply(503, "shutting down", <<>>)>>
    /\ pc[q] = "wait"
    /\ clientConn = 1

\* C2: every accepted primary request eventually gets exactly one outcome:
\* a responder that has entered its first-message wait eventually has
\* written exactly one reply.
C2_ExactlyOneOutcome ==
  \A r \in LiveReq :
    (pc[r] = "wait") ~> (pc[r] = "finish" /\ Len(reply[r]) = 1)

\* C5: after a /kill that found exactly one caller waiting and nothing
\* queued, a caller that returns without having collected a message has
\* been answered with `exit` or with a timeout (the 408 or the idle filler),
\* never with anything else.
C5_KillOneCaller ==
  killSnap = "one" =>
    \A r \in TimedReq :
      (pc[r] = "finish" /\ msgs[r] = <<>>) =>
        reply[r][1].kind \in {"exit", "timeout", "thinking"}

C8_Always408 ==
  [][\A r \in LiveReq :
       (pc[r] = "wait" /\ pc'[r] # "wait" /\ hardLeft(r) <= 0 /\ inputChan = <<>>) =>
          reply'[r] = <<Reply(408, "timeout", <<>>)>>]_vars

\* C8: a responder still waiting at its hard deadline does leave the wait,
\* also after its idle branch sent it back to waiting; the 408 is written
\* only at or after the hard deadline and only without a message; and when
\* nothing else is ready (no message queued, queue open, content typed) the
\* reply it leaves with is the 408.
C8_HardDeadline ==
  /\ \A r \in LiveReq : (pc[r] = "wait" /\ hardLeft(r) <= 0) ~> (pc[r] # "wait")
  /\ [][\A r \in LiveReq :
          /\ (reply[r] = <<>> /\ reply'[r] = <<Reply(408, "timeout", <<>>)>>) =>
               (pc[r] = "wait" /\ hardLeft(r) <= 0 /\ msgs[r] = <<>> /\ pc'[r] = "finish")
          /\ (/\ pc[r] = "wait" /\ pc'[r] # "wait" /\ hardLeft(r) <= 0
              /\ inputChan = <<>> /\ ~chanClosed /\ hasInputContent) =>
               (reply'[r] = <<Reply(408, "timeout", <<>>)>> /\ pc'[r] = "finish")]_vars

\* a responder that had gone back to waiting was answered with the 408
C8_Witness ==
  \E r \in LiveReq :
    /\ pc[r] = "finish" /\ wentBack[r]
    /\ reply[r] = <<Reply(408, "timeout", <<>>)>>
    /\ waited[r] = HardDeadlineMinutes

C10_SharedDeadlineGoverns ==
  [][\A r \in TimedReq :
       (pc[r] = "wait" /\ reply[r] = <<>> /\ reply'[r] # <<>>
        /\ reply'[r][1].kind = "thinking") => sinceIdleSet >= TIMEOUT]_vars

\* C10: accepting a request pushes the broker's idle deadline to accept time
\* plus the idle timeout and sets the responder's own idle deadline to the
\* same instant; the idle branch of a responder is governed by its own
\* deadline: it writes no filler and does not go back to waiting before its
\* own accept time plus the idle timeout.
C10_OwnDeadlineGoverns ==
  [][\A r \in TimedReq :
       /\ (pc[r] = "accepting" /\ pc'[r] = "wait") =>
            (sinceIdleSet' = 0 /\ waited'[r] = 0)
       /\ (pc[r] = "wait" /\ reply[r] = <<>> /\ reply'[r] # <<>>
           /\ reply'[r][1].kind = "thinking") => waited[r] >= TIMEOUT
       /\ (~wentBack[r] /\ wentBack'[r]) => waited[r] >= TIMEOUT]_vars

\* a responder was answered with the filler at its own idle deadline while
\* the broker's idle deadline, pushed by a later accept, was still ahead
C10_Witness ==
  \E r \in TimedReq :
    /\ pc[r] = "finish" /\ msgs[r] = <<>>
    /\ reply[r] = <<Reply(200, "thinking", <<>>)>>
    /\ waited[r] = TIMEOUT
    /\ sinceIdleSet >= 0 /\ sinceIdleSet < TIMEOUT

C12_FailureIs500 ==
  \A r \in Req :
    (/\ pc[r] = "finish"
     /\ \E i \in DOMAIN msgs[r] : msgs[r][i].Error
     /\ \A i \in DOMAIN msgs[r] : ~msgs[r][i].Exit)
    => reply[r][1].status = 500

C14_TimeoutIsNotAbort ==
  /\ (prodPc = "session" /\ ctxCancelled) ~> (prodPc # "session" \/ exited)
  /\ [][lastEnd' # lastEnd =>
          /\ lastEnd'.cause = "cancelled" => (ctxCancelled /\ lastEnd'.report = "timeout")
          /\ lastEnd'.report = "timeout" => ctxCancelled
          /\ lastEnd'.cause \in {"abort", "exit"} => lastEnd'.report = "exit"]_vars

\* a session was ended by the cancellation of its lifetime
C14_Witness ==
  /\ lastEnd = [cause |-> "cancelled", report |-> "timeout"]
  /\ prodPc = "publish"
  /\ ctxCancelled

\* ---------------------------------------------------------------------------
\* Properties of the section filter
\* ---------------------------------------------------------------------------

\* C15: filtering is idempotent: for every document, directory and runtime
\* flavor, filtering the result of the first pass against the same directory
\* again returns that result unchanged; no section the first pass kept is
\* missing after the second, a section whose heading the first pass rewrote
\* included.
C15_Idempotent ==
  passes = 2 => result = firstResult

\* C16: among the sections whose literal project spec matches the working
\* directory (directly or through git), exactly those whose spec has the most
\* path segments are kept, every section of a shallower ancestor project is
\* suppressed, and the sections without a spec are kept.
C16_MostSpecificLiteral ==
  passes = 1 =>
    LET sections == parseSections(document)
        m(i) == shouldIncludeSection(sections[i].Title, dir, isCursor)
        segmentCount(i) ==
          Len(SelectSeq(Split(m(i).ProjectPath, "/"), IsNonEmpty))
        literal == { i \in 1..Len(sections) :
                       m(i).MatchReason \in {"PathMatch", "GitWorktree"} }
        kept(i) == \E j \in 1..Len(filteredMatches) :
                      filteredMatches[j].Section = sections[i]
    IN  \A i \in 1..Len(sections) :
          /\ i \in literal =>
               (kept(i) <=>
                  \A k \in literal : segmentCount(k) <= segmentCount(i))
          /\ m(i).MatchReason = "NoProject" => kept(i)

\* C17: a section whose glob project spec matches the working directory is
\* kept whatever literal-path sections match as well, and the glob takes
\* nothing from them: from /a/b, "(project: /a/*)" and "(project: /a/b)" are
\* both kept.
C17_GlobAlwaysKept ==
  passes = 1 =>
    LET sections == parseSections(document)
        m(i) == shouldIncludeSection(sections[i].Title, dir, isCursor)
        literal == { i \in 1..Len(sections) :
                       m(i).MatchReason \in {"PathMatch", "GitWorktree"} }
        kept(i) == \E j \in 1..Len(filteredMatches) :
                      filteredMatches[j].Section = sections[i]
    IN  \A i \in 1..Len(sections) :
          /\ m(i).MatchReason = "GlobMatch" => kept(i)
          /\ (/\ i \in literal
              /\ \A k \in literal : m(k).Specificity <= m(i).Specificity)
               => kept(i)

\* a glob section and a literal section of the same directory, both kept
C17_Witness ==
  /\ passes = 1
  /\ dir = PathAB
  /\ Len(filteredMatches) = 2
  /\ filteredMatches[1].MatchReason = "GlobMatch"
  /\ filteredMatches[1].ProjectPath = GlobA
  /\ filteredMatches[2].MatchReason = "PathMatch"
  /\ filteredMatches[2].ProjectPath = PathAB

\* C18: with a non-cursor flavor no section whose heading carries the
\* (cursor-only) directive is kept, whatever project directive the heading
\* has and whether or not it matches; with a cursor flavor the directive
\* changes nothing: the result is the one the same document gives with the
\* directive taken off every line.
C18_CursorOnly ==
  passes = 1 =>
    LET plain(lines) ==
          [i \in 1..Len(lines) |-> [lines[i] EXCEPT !.cursorOnly = FALSE]]
    IN  /\ ~isCursor =>
             \A j \in 1..Len(filteredMatches) :
               ~filteredMatches[j].Section.Title.cursorOnly
        /\ isCursor =>
             filterContentByDir(plain(document), dir, TRUE).result
               = plain(result)

\* non-cursor flavor, filtered from /a/b: "(project: /a/b) (cursor-only)" is
\* left out while "(project: /a/b)" beside it is kept
C18_Witness ==
  /\ passes = 1
  /\ ~isCursor
  /\ dir = PathAB
  /\ Len(document) = 2
  /\ document[1] = Heading("CursorB", TRUE, Written(PathAB), TRUE, TRUE)
  /\ document[2] = Heading("B", TRUE, Written(PathAB), TRUE, FALSE)
  /\ Len(filteredMatches) = 1
  /\ filteredMatches[1].Section.Title = document[2]

\* C19: the heading of an emitted section differs from the heading in the
\* document exactly when the section matched through the git worktree/origin
\* fallback, and then it names the querying directory as its project; a
\* section matched by direct prefix, by glob, or without a spec is emitted
\* with its heading as it was.
C19_RewriteOnlyOnWorktree ==
  passes = 1 =>
    LET emitted == parseSections(result)
    IN  /\ Len(emitted) = Len(filteredMatches)
        /\ \A j \in 1..Len(filteredMatches) :
             LET match == filteredMatches[j]
             IN  IF match.MatchReason = "GitWorktree"
                 THEN /\ emitted[j].Title.project = Written(dir)
                      /\ emitted[j].Title # match.Section.Title
                      /\ emitted[j].Title.name = match.Section.Title.name
                 ELSE emitted[j].Title = match.Section.Title

\* from /a/b, inside a checkout of the repository that /w is a checkout of:
\* "(project: /w)" is emitted as "(project: /a/b)" and "(project: /a/b)",
\* a direct match of the same depth, as it was
C19_Witness ==
  /\ passes = 1
  /\ dir = PathAB
  /\ Len(filteredMatches) = 2
  /\ filteredMatches[1].MatchReason = "GitWorktree"
  /\ filteredMatches[1].ProjectPath = PathW
  /\ filteredMatches[2].MatchReason = "PathMatch"
  /\ result[1].project = Written(PathAB)
  /\ result[1].name = "W"

\* C20: a section with a literal project spec is a direct match if and only
\* if the working directory is the spec's directory or lies beneath it, whole
\* path segments compared; from a directory that is neither, and that git
\* does not relate to the spec, the section is excluded.
C20_DirectMatchWholeSegments ==
  passes = 1 =>
    LET sections == parseSections(document)
        m(i) == shouldIncludeSection(sections[i].Title, dir, isCursor)
        literal == { i \in 1..Len(sections) :
                       /\ sections[i].Title.hasProject
                       /\ sections[i].Title.closed
                       /\ ~containsGlobPattern(sections[i].Title.project)
                       /\ ~(sections[i].Title.cursorOnly /\ ~isCursor) }
        path(i) == Clean(TrimSpace(sections[i].Title.project))
        beneath(i) == \/ dir = path(i)
                      \/ path(i) = PathRoot
                      \/ HasPrefix(dir, path(i) \o <<"/">>)
    IN  /\ \A i \in literal :
             /\ m(i).MatchReason = "PathMatch" <=> beneath(i)
             /\ (~beneath(i) /\ ~isGitWorktree(dir, path(i))) => ~m(i).include
        /\ \A j \in 1..Len(filteredMatches) :
             filteredMatches[j].MatchReason = "PathMatch" =>
               \/ dir = filteredMatches[j].ProjectPath
               \/ filteredMatches[j].ProjectPath = PathRoot
               \/ HasPrefix(dir, filteredMatches[j].ProjectPath \o <<"/">>)

\* C21: a section whose heading has no project directive is included from
\* every working directory with reason NoProject and specificity 0 and is
\* kept by the selection, and a heading whose project directive lacks its
\* closing parenthesis is treated the same way (the cursor-only rule, which
\* comes first, set aside).
C21_NoProjectIncluded ==
  passes = 1 =>
    LET sections == parseSections(document)
        m(i) == shouldIncludeSection(sections[i].Title, dir, isCursor)
        kept(i) == \E j \in 1..Len(filteredMatches) :
                      /\ filteredMatches[j].Section = sections[i]
                      /\ filteredMatches[j].MatchReason = "NoProject"
                      /\ filteredMatches[j].Specificity = 0
    IN  \A i \in 1..Len(sections) :
          (/\ ~sections[i].Title.hasProject \/ ~sections[i].Title.closed
           /\ ~(sections[i].Title.cursorOnly /\ ~isCursor))
            => /\ m(i).include
               /\ m(i).MatchReason = "NoProject"
               /\ m(i).Specificity = 0
               /\ kept(i)

\* from /w, with no repository anywhere: the heading without a directive and
\* the heading "(project: /a/b" are both kept, "(project: /a/b)" is not
C21_Witness ==
  /\ passes = 1
  /\ dir = PathW
  /\ checkouts = {}
  /\ Len(document) = 3
  /\ document[1] = Heading("General", FALSE, <<>>, FALSE, FALSE)
  /\ document[2] = Heading("B", TRUE, Written(PathAB), TRUE, FALSE)
  /\ document[3] = Heading("Malformed", TRUE, Written(PathAB), FALSE, FALSE)
  /\ Len(filteredMatches) = 2
  /\ filteredMatches[1].Section.Title = document[1]
  /\ filteredMatches[2].Section.Title = document[3]

\* C22: a heading line opens a section exactly when an even number of fence
\* lines stands before it; the sections are those lines in order, and the
\* content of each is every line up to the next such heading, the heading
\* lines inside a fence among them (empty lines at the start of a content are
\* not kept).  Every fence line toggles the state.
C22_FenceAwareSections ==
  passes = 1 =>
    LET n == Len(document)
        inFence(i) ==
          Cardinality({k \in 1..i : document[k].kind = "fence"}) % 2 = 1
        openers == { i \in 1..n : document[i].kind = "heading" /\ ~inFence(i) }
        opener(s) ==
          CHOOSE i \in openers : Cardinality({k \in openers : k < i}) = s - 1
        last(s) ==
          IF s = Cardinality(openers) THEN n ELSE opener(s + 1) - 1
        body(s) == { i \in (opener(s) + 1)..last(s) : document[i] # BlankLine }
        first(s) == CHOOSE i \in body(s) : \A k \in body(s) : i <= k
        sections == parseSections(document)
    IN  /\ Len(sections) = Cardinality(openers)
        /\ \A s \in 1..Len(sections) :
             /\ sections[s].Title = document[opener(s)]
             /\ sections[s].Content =
                  IF body(s) = {} THEN <<>>
                  ELSE SubSeq(document, first(s), last(s))
        /\ \A j \in 1..Len(filteredMatches) :
             \E s \in 1..Len(sections) : filteredMatches[j].Section = sections[s]

\* a heading, a fence line and a heading line inside the fence: one section,
\* whose content is the fence line and the heading line
C22_Witness ==
  /\ passes = 1
  /\ Len(document) = 3
  /\ document[1] = Heading("General", FALSE, <<>>, FALSE, FALSE)
  /\ document[2] = FenceLine
  /\ document[3] = Heading("B", TRUE, Written(PathAB), TRUE, FALSE)
  /\ Len(filteredMatches) = 1
  /\ filteredMatches[1].Section.Content = <<document[2], document[3]>>
  /\ result = document

\* C23: the sections the filter keeps are a subsequence of the parsed
\* sections: in document order, each kept section once, two sections with the
\* same heading and content counted as two; and the result is, for each in
\* turn, its heading line (the project path rewritten on a worktree match)
\* followed by its content.
C23_OrderPreserved ==
  passes = 1 =>
    LET sections == parseSections(document)
        keptAt == { i \in 1..Len(sections) :
                      \E j \in 1..Len(filteredMatches) :
                        filteredMatches[j].Section = sections[i] }
        nth(j) ==
          CHOOSE i \in keptAt : Cardinality({k \in keptAt : k < i}) = j - 1
        emitted == parseSections(result)
        lineCount[j \in 0..Len(filteredMatches)] ==
          IF j = 0 THEN 0
          ELSE lineCount[j - 1] + 1 + Len(filteredMatches[j].Section.Content)
    IN  /\ Len(filteredMatches) = Cardinality(keptAt)
        /\ \A j \in 1..Len(filteredMatches) :
             filteredMatches[j].Section = sections[nth(j)]
        /\ Len(emitted) = Len(filteredMatches)
        /\ \A j \in 1..Len(emitted) :
             /\ emitted[j].Content = filteredMatches[j].Section.Content
             /\ emitted[j].Title.name = filteredMatches[j].Section.Title.name
             /\ filteredMatches[j].MatchReason # "GitWorktree"
                  => emitted[j].Title = filteredMatches[j].Section.Title
        /\ IF filteredMatches = <<>> THEN result = <<BlankLine>>
           ELSE Len(result) = lineCount[Len(filteredMatches)]

\* from /a/b: "(project: /a/b)", a heading without directive, and the first
\* heading again; all three are kept, in this order
C23_Witness ==
  /\ passes = 1
  /\ dir = PathAB
  /\ Len(document) = 3
  /\ document[1] = Heading("B", TRUE, Written(PathAB), TRUE, FALSE)
  /\ document[2] = Heading("General", FALSE, <<>>, FALSE, FALSE)
  /\ document[3] = document[1]
  /\ Len(filteredMatches) = 3
  /\ result = document

\* ---------------------------------------------------------------------------
\* Properties of the Terminal Input Session

C25_FallbackSameOutcome ==
  /\ (quit /\ lineOnly /\ fbPos = Len(typedLines))
       => /\ fbState = sessionState
          /\ sessionState = "Submitted" => fbLines = terminalLines(mContent)
  /\ (lineOnly /\ fbState # "Reading")
       => (quit /\ fbPos = Len(typedLines))

C27_ExitAborts ==
  [][ /\ (KeyEnter(MaxKeys) /\ lastLineOf(textarea) = <<TokenExit>>)
           => (sessionState' = "Aborted" /\ inputExited')
      /\ ((KeyCtrlS(MaxKeys) \/ KeyCtrlD(MaxKeys))
            /\ TrimText(textarea) = << <<TokenExit>> >>)
           => (sessionState' = "Aborted" /\ inputExited') ]_vars

\* C28: recognising CLEAR (the trailing line on Enter, the whole trimmed
\* buffer on a submit key, a line of the fallback) empties the buffer and
\* leaves the session in Editing with nothing submitted, and no text typed
\* before a CLEAR is part of a later submission of the session.
C28_ClearDiscards ==
  [][ LET trimmed == TrimText(textarea)
          body == TrimText(withLastLine(trimmed,
                                        WithoutEND(lastLineOf(trimmed))))
          cleared == /\ textarea' = EmptyText
                     /\ sessionState' = "Editing"
                     /\ ~finished'
      IN  /\ (KeyEnter(MaxKeys) /\ lastLineOf(textarea) = <<TokenCLEAR>>)
               => cleared
          /\ ((KeyCtrlS(MaxKeys) \/ KeyCtrlD(MaxKeys))
                /\ body = << <<TokenCLEAR>> >>)
               => cleared
          /\ sessionState' = "Submitted"
               => textWords(mContent') \cap discarded' = {}
          /\ (FallbackRead /\ typedLines[fbPos + 1] = <<TokenCLEAR>>)
               => (fbLines' = <<>> /\ fbState' = "Reading")
          /\ fbState' = "Submitted"
               => textWords(fbLines') \cap fbDiscarded' = {} ]_vars

\* the session has submitted text after a CLEAR emptied other text away, and
\* the fallback has read that CLEAR and dropped its lines
C28_Witness ==
  /\ sessionState = "Submitted"
  /\ discarded # {}
  /\ HasLength(mContent)
  /\ fbDiscarded # {}
  /\ fbLines = <<>>

\* ---------------------------------------------------------------------------
\* Properties of the reply and of the caller count

\* C29: a responder that has collected messages without failure and without
\* exit signal answers with the "still thinking" filler when every message it
\* obtained, the first and the drained ones, carries empty text, and with the
\* question wrapper when some message carries text.
C29_EmptyTextIsFiller ==
  \A r \in Req :
    (/\ pc[r] = "finish" /\ msgs[r] # <<>>
     /\ \A i \in DOMAIN msgs[r] : ~msgs[r][i].Error /\ ~msgs[r][i].Exit)
    => reply[r][Len(reply[r])].kind =
         IF \A i \in DOMAIN msgs[r] : msgs[r][i].Content = 0
         THEN "thinking" ELSE "question"

\* C30: the caller count is never negative and always equals the number of
\* requests that have been accepted and whose handler has not returned, so
\* that every accept is matched by exactly one decrement, at the return of
\* the handler, however the request was answered.
C30_CallerCountPaired ==
  LET Accepted == {r \in Req : pc[r] \in {"wait", "drain", "finish"}}
  IN  /\ clientConn >= 0
      /\ clientConn = Cardinality(Accepted)

\* one handler has returned and been counted down while another, answered
\* with the 408 of the hard deadline, is still counted
C30_Witness ==
  /\ clientConn = 1
  /\ \E r \in Req : pc[r] = "done"
  /\ \E r \in Req :
       /\ pc[r] = "finish"
       /\ reply[r][Len(reply[r])].status = 408

\* ---------------------------------------------------------------------------
\* Properties of the timer messages

\* C31: the timer message is sent exactly on the caller count's transitions
\* from and to zero: once every message sent to the running program has been
\* handled, the last one is enableTimerMsg if and only if the count is
\* positive (also for a program created while callers wait); an accept at a
\* positive count sends nothing; and the countdown starts again only with an
\* enableTimerMsg that follows a time without callers.
C31_TimerFollowsCount ==
  [][ /\ (program' /\ inbox' = "none" /\ spawnedMsg' = "none")
           => ((lastTimerMsg' = "enable") <=> (clientConn' > 0))
      /\ (clientConn' = clientConn + 1 /\ clientConn > 0) => inbox' = inbox
      /\ (program /\ program' /\ sinceBegin > 0 /\ sinceBegin' = 0)
           => lastTimerMsg # "enable" ]_vars

\* ---------------------------------------------------------------------------
\* Further properties of the broker

\* C32: the /kill handler sets the shutdown flag and leaves shutdown to a
\* control flow of its own: its step raises the flag and the pending
\* shutdown and does nothing of the shutdown itself (the producer's lifetime,
\* the listener and the process are as before, no primary handler is moved);
\* the handler can run to its end whenever the server listens, whatever the
\* primary handlers are doing; and shutdown only ever starts with the flag up.
C32_KillIsAsynchronous ==
  /\ [][Kill => /\ shutdownRequested' /\ shutdownPending'
               /\ ctxCancelled' = ctxCancelled
               /\ listening' = listening
               /\ exited' = exited
               /\ responderVars' = responderVars
               /\ clientConn' = clientConn]_vars
  /\ []((listening /\ ~exited) => ENABLED Kill)
  /\ [][(ctxCancelled' /\ ~ctxCancelled) =>
          (shutdownRequested /\ shutdownPending)]_vars

\* /kill has returned with its shutdown still pending while a primary
\* handler is in flight
C32_Witness ==
  /\ killSnap # "none"
  /\ shutdownRequested /\ shutdownPending
  /\ listening /\ ~ctxCancelled
  /\ Waiting # {}

\* C33: a publish during shutdown never holds the producer: once the lifetime
\* is cancelled a producer that is publishing always has a step to take, and
\* it gets to the end of its loop and closes the queue (or the process has
\* ended before), whether the queue has room or is full; and the only step
\* that takes it out of a publish against a full queue is the one that gives
\* the publish up, drops the message and ends the loop.
C33_PublishNeverBlocksShutdown ==
  /\ []((prodPc = "publish" /\ ctxCancelled /\ ~exited)
          => ENABLED (PublishSend \/ PublishAbandon))
  /\ (prodPc = "publish" /\ ctxCancelled)
       ~> ((prodPc = "stopped" /\ chanClosed) \/ exited)
  /\ [][(/\ prodPc = "publish" /\ Len(inputChan) = QueueCap
         /\ prodPc' # "publish" /\ inputChan' = inputChan)
        => /\ ctxCancelled
           /\ prodPc' = "stopped" /\ chanClosed'
           /\ pendingMsg' = NoMessage
           /\ \A i \in DOMAIN inputChan : inputChan[i].id # pendingMsg.id]_vars

\* the loop has ended on a full queue: the last message, the exit signal of
\* the session that shutdown cancelled, was built and is not in the queue
C33_Witness ==
  /\ prodPc = "stopped"
  /\ Len(inputChan) = QueueCap
  /\ produced = QueueCap + 1
  /\ lastEnd = NoEnd

\* C34: the drain phase always ends and never waits: a responder that drains
\* gets on to composing its reply, in every state of the queue, and a message
\* it collects while draining is one that was queued.
C34_DrainTerminates ==
  /\ \A r \in LiveReq : (pc[r] = "drain") ~> (pc[r] # "drain")
  /\ [][\A r \in LiveReq :
          (pc[r] = "drain" /\ msgs'[r] # msgs[r])
            => (inputChan # <<>> /\ msgs'[r] = Append(msgs[r], Head(inputChan)))]_vars

\* C35: a responder that ends by the 408 of its hard deadline or by the idle
\* filler leaves the producer and the queue unchanged: neither the step that
\* writes the reply nor the return of its handler dequeues a message, cancels
\* or restarts the running session, or changes another responder; only the
\* caller count drops by one at the return (where a shutdown that was already
\* requested is handed to its own control flow).
C35_TimeoutLeavesProducer ==
  [][\A r \in TimedReq :
       LET out == pc'[r] = "finish" /\ msgs'[r] = <<>> /\ reply'[r] # <<>>
                  /\ reply'[r][Len(reply'[r])].kind \in {"timeout", "thinking"}
           timesOut == pc[r] = "wait" /\ out
           returns == pc[r] = "finish" /\ msgs[r] = <<>> /\ reply[r] # <<>>
                      /\ reply[r][Len(reply[r])].kind \in {"timeout", "thinking"}
                      /\ pc'[r] = "done"
       IN  (timesOut \/ returns) =>
             /\ producerVars' = producerVars
             /\ inputChan' = inputChan /\ delivered' = delivered
             /\ chanClosed' = chanClosed /\ ctxCancelled' = ctxCancelled
             /\ program' = program /\ listening' = listening
             /\ shutdownRequested' = shutdownRequested
             /\ shutdownPending' =
                  (shutdownPending \/ (returns /\ shutdownRequested))
             /\ sinceIdleSet' = sinceIdleSet
             /\ clientConn' = IF returns THEN clientConn - 1 ELSE clientConn
             /\ \A q \in Req \ {r} :
                  /\ pc'[q] = pc[q] /\ msgs'[q] = msgs[q]
                  /\ reply'[q] = reply[q] /\ waited'[q] = waited[q]]_vars

\* a responder has written its 408 while a session runs and another
\* responder waits
C35_Witness ==
  \E r \in TimedReq :
    /\ pc[r] = "finish" /\ msgs[r] = <<>>
    /\ reply[r] = <<Reply(408, "timeout", <<>>)>>
    /\ prodPc = "session"
    /\ Waiting # {}

\* ---------------------------------------------------------------------------
\* Properties of the replies and of the acceptance of callers
\* ---------------------------------------------------------------------------

\* C36: every content message a responder has dequeued appears in its reply:
\* once the reply is written, the text of each collected message that is
\* neither an exit signal nor an error and whose text is non-empty is one of
\* the texts of the reply, also when a message drained after it is an exit
\* signal or carries an error.
C36_DequeuedTextIsReplied ==
  \A r \in Req :
    (pc[r] = "finish" /\ reply[r] # <<>>) =>
      \A i \in DOMAIN msgs[r] :
        (~msgs[r][i].Exit /\ ~msgs[r][i].Error /\ msgs[r][i].Content # 0) =>
          \E k \in DOMAIN reply[r][Len(reply[r])].text :
            reply[r][Len(reply[r])].text[k] = msgs[r][i].Content

\* C37: no request is accepted once shutdown has been requested: the caller
\* count is never incremented in a state where the shutdown flag is set,
\* however the handler's shutdown check interleaves with /kill.
C37_NoAcceptAfterShutdownRequested ==
  [][clientConn' = clientConn + 1 => ~shutdownRequested]_vars

\* ---------------------------------------------------------------------------
\* Further properties of the Terminal Input Session
\* ---------------------------------------------------------------------------

\* C38: after the session has processed any event, the has-typed-content flag
\* equals whether the buffer is non-empty: while the session runs, the flag
\* is set exactly when the textarea holds something.
C38_FlagTracksBuffer ==
  sessionRuns => (hasInput <=> HasLength(textarea))

\* ---------------------------------------------------------------------------
\* Properties of native collection
\* ---------------------------------------------------------------------------

\* C39: a read that ends with a failure other than exit is always returned as
\* an error by createInput, whether it ends before or after the TIMEOUT timer
\* has fired.
C39_FailureIsReturned ==
  (callPc = "returned" /\ sessionEnd = "fail") => callReturn = "error"

\* C40: if nothing has been typed when TIMEOUT elapses, the call eventually
\* returns with the filler written, even if no input ever arrives, whether
\* stdin is a terminal or not.
C40_FillerEventuallyReturned ==
  (callPc = "joinCancelled") ~>
    (callPc = "returned" /\ written # <<>>
       /\ written[Len(written)] = "thinking")

====
